---- MODULE Spec2Model ----
(***************************************************************************)
(* Markdown render service (src/pdf_docx_api.py): the backend fallback     *)
(* orchestrators markdown_to_pdf_bytes and markdown_to_docx_bytes, the     *)
(* four render endpoints, the diagram render chain render_mermaid_diagram   *)
(* with the direct PDF assembler's diagram block, and the three functions  *)
(* that scan the markdown line by line: the loop of                        *)
(* markdown_to_pdf_bytes_reportlab, the loop of the python-docx branch of  *)
(* markdown_to_docx_bytes, and process_mermaid_diagrams_in_markdown.       *)
(* Tables are modelled down to their cells: the row parsing, the cell      *)
(* markup of process_bold_text and the column width plan of                *)
(* parse_markdown_table, and the grid of _add_table_to_doc.  Two requests  *)
(* in flight share the temporary directory.                                *)
(*                                                                         *)
(* Third-party renderers (WeasyPrint, ReportLab, pandoc, python-docx,      *)
(* mmdc, the two network services) and the file system are the             *)
(* environment: each call's outcome is chosen nondeterministically among   *)
(* returning a value and raising.                                          *)
(***************************************************************************)
EXTENDS Integers, Sequences, FiniteSets, TLC

VARIABLES
    phase,              \* "load" | "import_error" | "serving"
    caps,               \* the *_AVAILABLE module flags
    endpoint,           \* the endpoint of the request being served, or "none"
    body,               \* the request body as a raw endpoint sees it
    pc,                 \* position inside the request
    calls,              \* backend calls made by the request, in order
    disk,               \* temporary files present on disk
    created,            \* temporary files the request has created
    tmp_out_path,       \* local of markdown_to_docx_bytes
    reference_doc_path, \* local of markdown_to_docx_bytes ("unbound" before line 1386)
    pending,            \* value a `return` inside try is carrying through `finally`
    fn,                 \* how the orchestrator function ended
    response,           \* the HTTP response of the request
    mpc,                \* position of the PDF assembler / render_mermaid_diagram
    mmd_path,           \* local of render_mermaid_diagram, "None" or a file
    png_path,           \* local of render_mermaid_diagram, "None" or a file
    attempted,          \* render methods entered, in order
    mpending,           \* how the try block of render_mermaid_diagram ended
    mresult,            \* how render_mermaid_diagram ended
    elements,           \* the elements the assembler appended for the diagram
    scanner,            \* the line-scanning function that is running, or "none"
    spc,                \* its position: "idle" | "loop" | "done"
    lines,              \* the lines of markdown_text its loop has read, in order
    in_code_block,      \* local of the scanning function
    code_lines,         \* local of the scanning function
    code_language,      \* local of the scanning function
    in_table,           \* local of the scanning function
    table_lines,        \* local of the scanning function
    blocks,             \* what it has appended to elements / doc / processed_lines
    wpc,                \* position inside the width plan of parse_markdown_table
    max_content_lengths,\* local of parse_markdown_table
    narrow_cols,        \* local of parse_markdown_table
    medium_cols,        \* local of parse_markdown_table
    wide_cols,          \* local of parse_markdown_table
    narrow_width,       \* local of parse_markdown_table
    medium_width,       \* local of parse_markdown_table
    remaining_width,    \* local of parse_markdown_table
    col_widths,         \* local of parse_markdown_table
    rkind,              \* of each of two concurrent requests: what it renders
    rpos,               \* its position in the temporary-file steps of its render
    rpath,              \* its locals holding the paths of its temporary files (0: None)
    rdata,              \* the bytes it read back from its output file
    issued,             \* the names tempfile has handed out
    tmpdir              \* the files of the temporary directory, by name

renderVars == <<endpoint, body, pc, calls, disk, created, tmp_out_path,
                reference_doc_path, pending, fn, response>>

mermaidVars == <<mpc, mmd_path, png_path, attempted, mpending, mresult, elements>>

scanVars == <<scanner, spc, lines, in_code_block, code_lines, code_language,
              in_table, table_lines, blocks>>

widthVars == <<wpc, max_content_lengths, narrow_cols, medium_cols, wide_cols,
               narrow_width, medium_width, remaining_width, col_widths>>

pairVars == <<rkind, rpos, rpath, rdata, issued, tmpdir>>

vars == <<phase, caps, renderVars, mermaidVars, scanVars, widthVars, pairVars>>

\* Two requests in flight, and the names tempfile can choose from.
Requests == {1, 2}

MaxNames == 4

Names == 1..MaxNames

(***************************************************************************)
(* Numbers.  The widths of parse_markdown_table are Python floats built    *)
(* from the page width by +, -, *, /, min and max.  They are modelled as   *)
(* exact fractions [num, den] in lowest terms with den > 0, so that every  *)
(* comparison below is the comparison of the real numbers the floats       *)
(* stand for.                                                              *)
(***************************************************************************)
Abs(x) == IF x < 0 THEN 0 - x ELSE x

RECURSIVE GCD(_, _)
GCD(a, b) == IF b = 0 THEN a ELSE GCD(b, a % b)

LCM(a, b) == (a \div GCD(a, b)) * b

Rat(n, d) ==
    LET g == GCD(Abs(n), d)
    IN  [num |-> IF n < 0 THEN 0 - (Abs(n) \div g) ELSE n \div g, den |-> d \div g]

Whole(k) == [num |-> k, den |-> 1]

RAdd(a, b) ==
    LET l == LCM(a.den, b.den)
    IN  Rat(a.num * (l \div a.den) + b.num * (l \div b.den), l)

RSub(a, b) == RAdd(a, [num |-> 0 - b.num, den |-> b.den])

RMul(a, b) ==
    LET g1 == GCD(Abs(a.num), b.den)
        g2 == GCD(Abs(b.num), a.den)
        n1 == IF a.num < 0 THEN 0 - (Abs(a.num) \div g1) ELSE a.num \div g1
        n2 == IF b.num < 0 THEN 0 - (Abs(b.num) \div g2) ELSE b.num \div g2
    IN  [num |-> n1 * n2, den |-> (a.den \div g2) * (b.den \div g1)]

\* a / b for b # 0 (every division of the width plan has a non-zero divisor).
RDiv(a, b) ==
    RMul(a, IF b.num > 0 THEN [num |-> b.den, den |-> b.num]
                         ELSE [num |-> 0 - b.den, den |-> 0 - b.num])

RLess(a, b) ==
    LET l == LCM(a.den, b.den)
    IN  a.num * (l \div a.den) < b.num * (l \div b.den)

RMax(a, b) == IF RLess(a, b) THEN b ELSE a

RMin(a, b) == IF RLess(b, a) THEN b ELSE a

\* sum(ws).  A run of equal neighbours is added as one product, which is the
\* same number.
RECURSIVE RSum(_)
RSum(ws) ==
    IF ws = <<>> THEN Whole(0)
    ELSE LET run == CHOOSE k \in 1..Len(ws) :
                        /\ \A j \in 1..k : ws[j] = ws[1]
                        /\ k = Len(ws) \/ ws[k + 1] # ws[1]
         IN  RAdd(RMul(Whole(run), ws[1]), RSum(SubSeq(ws, run + 1, Len(ws))))

(***************************************************************************)
(* Byte strings.  A byte is a one-character string; an artifact is the     *)
(* byte string plus what zipfile.ZipFile finds when it opens it.           *)
(***************************************************************************)
StartsWith(b, p) == Len(b) >= Len(p) /\ SubSeq(b, 1, Len(p)) = p

PK == <<"P", "K">>

Artifacts ==
    { [bytes |-> <<>>,                        zip |-> "not_zip"],
      [bytes |-> <<"P", "K", "d">>,           zip |-> "docx"],
      [bytes |-> <<"P", "K", "z">>,           zip |-> "no_parts"],
      [bytes |-> <<"P", "K">>,                zip |-> "not_zip"],
      [bytes |-> <<"x", "P", "K">>,           zip |-> "not_zip"],
      [bytes |-> <<"%", "P", "D", "F", "1">>, zip |-> "not_zip"] }

NoArtifact == [bytes |-> <<>>, zip |-> "none"]

\* Exceptions: the class decides the endpoint's except clause, `status` is
\* HTTPException.status_code, `detail` names the message.
Exc(type, status, detail) == [type |-> type, status |-> status, detail |-> detail]

BackendExcTypes == {"RuntimeError", "Other"}

\* A backend call's outcome.
Raises(type) == [kind |-> "raise", exc |-> Exc(type, 0, "backend"), art |-> NoArtifact]
Returns(a) == [kind |-> "return", exc |-> Exc("none", 0, ""), art |-> a]
RaisesExc(e) == [kind |-> "raise", exc |-> e, art |-> NoArtifact]
NotEnded == [kind |-> "none", exc |-> Exc("none", 0, ""), art |-> NoArtifact]

BackendOutcomes == {Raises(t) : t \in BackendExcTypes} \cup {Returns(a) : a \in Artifacts}

\* How a Python block ends: with a value (kind "return"), with an exception
\* (kind "raise") or not yet (kind "none").
NoValue == [kind |-> "none", value |-> "", type |-> "none"]
ReturnValue(v) == [kind |-> "return", value |-> v, type |-> "none"]
RaiseType(t) == [kind |-> "raise", value |-> "", type |-> t]

(***************************************************************************)
(* Module import, lines 23-80 and 882.                                     *)
(***************************************************************************)
CapNames == {"reportlab", "weasyprint", "pandoc", "python_docx", "mermaid"}

AllCaps == [CapNames -> BOOLEAN]

NoCaps == [c \in CapNames |-> FALSE]

\* HTML2DOCX_AVAILABLE = PYTHON_DOCX_AVAILABLE
HTML2DOCX_AVAILABLE(c) == c["python_docx"]

\* class NumberedCanvas(canvas.Canvas) is evaluated at import: with the
\* reportlab import failed the name canvas is unbound and the import of the
\* module raises NameError, so no request is ever served.
ImportPhase(c) == IF c["reportlab"] THEN "serving" ELSE "import_error"

LoadModule ==
    /\ phase = "load"
    /\ \E c \in AllCaps :
          /\ caps' = c
          /\ phase' = ImportPhase(c)
    /\ UNCHANGED <<renderVars, mermaidVars, scanVars, widthVars, pairVars>>

\* One entry of the request's call log: the backend called, what the backend
\* did (returned, raised, ...), the class of the exception it raised, and the
\* artifact it produced, if any.
Call(name, how, type, art) == [name |-> name, how |-> how, type |-> type, art |-> art]

Called(cs, name) == \E i \in 1..Len(cs) : cs[i].name = name

(***************************************************************************)
(* markdown_to_pdf_bytes, lines 1265-1281.  weasy and rl are the outcomes  *)
(* of the WeasyPrint call (markdown_to_html + write_pdf) and of            *)
(* markdown_to_pdf_bytes_reportlab.  Neither call is inside a try and no   *)
(* check is made on the bytes.                                             *)
(***************************************************************************)
MarkdownToPdfBytes(c, weasy, rl) ==
    IF c["weasyprint"]
    THEN [calls |-> <<Call("weasyprint", weasy.kind, weasy.exc.type, weasy.art)>>, out |-> weasy]
    ELSE IF c["reportlab"]
    THEN [calls |-> <<Call("reportlab", rl.kind, rl.exc.type, rl.art)>>, out |-> rl]
    ELSE [calls |-> <<>>,
          out |-> RaisesExc(Exc("RuntimeError", 0, "no_pdf_backend"))]

\* A response: status, the body sent, and the detail of a failure.
Ok(a) == [status |-> 200, art |-> a, detail |-> ""]
Fail(status, detail) == [status |-> status, art |-> NoArtifact, detail |-> detail]
NoResponse == [status |-> 0, art |-> NoArtifact, detail |-> ""]

\* render_pdf, lines 1835-1850: except RuntimeError -> 503, except Exception -> 500.
RenderPdfResponse(out) ==
    IF out.kind = "return" THEN Ok(out.art)
    ELSE IF out.exc.type = "RuntimeError" THEN Fail(503, out.exc.detail)
    ELSE Fail(500, "pdf_rendering_error")

\* render_pdf_raw, lines 1827-1832: JSONDecodeError -> 400, RuntimeError -> 503,
\* every other Exception (the handler's own HTTPException included) -> 500.
RenderPdfRawResponse(out) ==
    IF out.kind = "return" THEN Ok(out.art)
    ELSE IF out.exc.type = "JSONDecodeError" THEN Fail(400, "invalid_json")
    ELSE IF out.exc.type = "RuntimeError" THEN Fail(503, out.exc.detail)
    ELSE Fail(500, "pdf_rendering_error")

\* The request body of a raw endpoint, lines 1754-1764 and 1804-1814.
Bodies == {"bad_json", "no_markdown", "ok"}

\* What the raw endpoints raise before rendering, if anything.
RawPrecheck(b) ==
    IF b = "bad_json" THEN RaisesExc(Exc("JSONDecodeError", 0, "invalid_json"))
    ELSE IF b = "no_markdown"
    THEN RaisesExc(Exc("HTTPException", 400, "markdown_field_is_required"))
    ELSE NotEnded

Endpoints == {"render_pdf", "render_pdf_raw", "render_docx", "render_docx_raw"}

PdfEndpoints == {"render_pdf", "render_pdf_raw"}

DocxEndpoints == {"render_docx", "render_docx_raw"}

\* A request arrives at a serving process.
RawEndpoints == {"render_pdf_raw", "render_docx_raw"}

\* A request arrives at a serving process.  The typed endpoints get their
\* body validated by the framework before the handler runs.
ReceiveRequest ==
    /\ phase = "serving"
    /\ pc = "idle"
    /\ \E e \in Endpoints, b \in Bodies :
          /\ e \notin RawEndpoints => b = "ok"
          /\ endpoint' = e
          /\ body' = b
    /\ pc' = "handler"
    /\ UNCHANGED <<pairVars, widthVars, scanVars, mermaidVars, phase, caps, calls, disk, created, tmp_out_path,
                   reference_doc_path, pending, fn, response>>

\* render_pdf, lines 1835-1850.
RenderPdf ==
    /\ pc = "handler"
    /\ endpoint = "render_pdf"
    /\ \E weasy \in BackendOutcomes, rl \in BackendOutcomes :
          LET r == MarkdownToPdfBytes(caps, weasy, rl) IN
          /\ calls' = r.calls
          /\ fn' = r.out
          /\ response' = RenderPdfResponse(r.out)
    /\ pc' = "done"
    /\ UNCHANGED <<pairVars, widthVars, scanVars, mermaidVars, phase, caps, endpoint, body, disk, created, tmp_out_path,
                   reference_doc_path, pending>>

\* render_pdf_raw, lines 1799-1832.
RenderPdfRaw ==
    /\ pc = "handler"
    /\ endpoint = "render_pdf_raw"
    /\ \E weasy \in BackendOutcomes, rl \in BackendOutcomes :
          LET pre == RawPrecheck(body)
              r == MarkdownToPdfBytes(caps, weasy, rl)
          IN  IF pre.kind = "raise"
              THEN /\ calls' = <<>>
                   /\ fn' = NotEnded
                   /\ response' = RenderPdfRawResponse(pre)
              ELSE /\ calls' = r.calls
                   /\ fn' = r.out
                   /\ response' = RenderPdfRawResponse(r.out)
    /\ pc' = "done"
    /\ UNCHANGED <<pairVars, widthVars, scanVars, mermaidVars, phase, caps, endpoint, body, disk, created, tmp_out_path,
                   reference_doc_path, pending>>

(***************************************************************************)
(* validate_docx_file, lines 827-852.                                      *)
(***************************************************************************)
validate_docx_file(a) ==
    IF Len(a.bytes) = 0 THEN FALSE
    ELSE IF ~StartsWith(a.bytes, PK) THEN FALSE
    ELSE a.zip = "docx"

(***************************************************************************)
(* _create_reference_docx, lines 1284-1368.  how is where the body ends:   *)
(*   "tmp_fails"   NamedTemporaryFile raises: no file was created          *)
(*   "build_fails" Document() or the header/footer set-up raises           *)
(*   "save_fails"  doc.save(tmp_ref_path) raises                           *)
(*   "ok"          the path is returned                                    *)
(* The except clause of line 1366 returns "" and removes nothing.          *)
(***************************************************************************)
ReferenceHows == {"tmp_fails", "build_fails", "save_fails", "ok"}

CreateReferenceDocx(c, how) ==
    IF ~HTML2DOCX_AVAILABLE(c) THEN [path |-> "", files |-> {}]
    ELSE IF how = "tmp_fails" THEN [path |-> "", files |-> {}]
    ELSE IF how \in {"build_fails", "save_fails"}
    THEN [path |-> "", files |-> {"tmp_ref"}]
    ELSE [path |-> "tmp_ref", files |-> {"tmp_ref"}]

(***************************************************************************)
(* The converter attempt, lines 1399-1429.  conv is what                   *)
(* pypandoc.convert_text does: raise, return having left no output file    *)
(* ("removed"), or return having written the artifact conv.art.  Every     *)
(* exception of the block is caught at line 1426.                          *)
(***************************************************************************)
ConvOutcomes ==
    {[how |-> "raise", art |-> NoArtifact], [how |-> "removed", art |-> NoArtifact]}
        \cup {[how |-> "wrote", art |-> a] : a \in Artifacts}

\* Mutant: the bytes are returned without the check of line 1421.
PandocAttemptUnvalidated(conv) ==
    IF conv.how = "raise" THEN NotEnded
    ELSE IF conv.how = "removed" THEN NotEnded
    ELSE IF Len(conv.art.bytes) = 0 THEN NotEnded
    ELSE Returns(conv.art)

PandocAttempt(conv) ==
    IF conv.how = "raise" THEN NotEnded
    ELSE IF conv.how = "removed" THEN NotEnded
    ELSE IF Len(conv.art.bytes) = 0 THEN NotEnded
    ELSE IF ~validate_docx_file(conv.art) THEN NotEnded
    ELSE Returns(conv.art)

(***************************************************************************)
(* The finally block, lines 1430-1439: the files left on disk.  An         *)
(* os.remove that raises ends the block (the except of line 1437).         *)
(***************************************************************************)
CleanupConverterFiles(d, out, ref, outFails, refFails) ==
    IF out \in d /\ outFails THEN d
    ELSE LET d1 == d \ {out} IN
         IF ref \notin {"unbound", ""} /\ ref \in d1
         THEN IF refFails THEN d1 ELSE d1 \ {ref}
         ELSE d1

(***************************************************************************)
(* The direct structural backend, lines 1441-1621.  how:                   *)
(*   "build_raises" anything from line 1443 to line 1594 raises exc        *)
(*   "save_raises"  doc.save(buf) raises                                   *)
(*   "saved"        doc.save wrote art                                     *)
(* The try of line 1598 covers the save and the two checks only, and       *)
(* rewraps whatever it catches as RuntimeError.                            *)
(***************************************************************************)
StructOutcomes ==
    {[how |-> "build_raises", type |-> t, art |-> NoArtifact] : t \in BackendExcTypes}
        \cup {[how |-> "save_raises", type |-> t, art |-> NoArtifact] : t \in BackendExcTypes}
        \cup {[how |-> "saved", type |-> "none", art |-> a] : a \in Artifacts}

\* Mutant: the signature check of line 1607 is missing.
StructuralBackendNoSignatureCheck(st) ==
    IF st.how = "build_raises" THEN Raises(st.type)
    ELSE IF st.how = "save_raises"
    THEN RaisesExc(Exc("RuntimeError", 0, "failed_to_save_docx"))
    ELSE IF Len(st.art.bytes) = 0
    THEN RaisesExc(Exc("RuntimeError", 0, "failed_to_save_docx"))
    ELSE Returns(st.art)

\* Mutant: the except of line 1613 re-raises the exception it caught.
StructuralBackendNoRewrap(st) ==
    IF st.how = "build_raises" THEN Raises(st.type)
    ELSE IF st.how = "save_raises" THEN Raises(st.type)
    ELSE IF Len(st.art.bytes) = 0
    THEN RaisesExc(Exc("RuntimeError", 0, "failed_to_save_docx"))
    ELSE IF ~StartsWith(st.art.bytes, PK)
    THEN RaisesExc(Exc("RuntimeError", 0, "failed_to_save_docx"))
    ELSE Returns(st.art)

StructuralBackend(st) ==
    IF st.how = "build_raises" THEN Raises(st.type)
    ELSE IF st.how = "save_raises"
    THEN RaisesExc(Exc("RuntimeError", 0, "failed_to_save_docx"))
    ELSE IF Len(st.art.bytes) = 0
    THEN RaisesExc(Exc("RuntimeError", 0, "failed_to_save_docx"))
    ELSE IF ~StartsWith(st.art.bytes, PK)
    THEN RaisesExc(Exc("RuntimeError", 0, "failed_to_save_docx"))
    ELSE Returns(st.art)

\* Mutant: the except RuntimeError clause of line 1872 is missing.
RenderDocxResponseNoRuntimeClause(out) ==
    IF out.kind = "return"
    THEN IF validate_docx_file(out.art) THEN Ok(out.art)
         ELSE Fail(500, "generated_docx_file_is_corrupted")
    ELSE IF out.exc.type = "HTTPException" THEN Fail(out.exc.status, out.exc.detail)
    ELSE Fail(500, "docx_rendering_error")

\* render_docx, lines 1856-1879.
RenderDocxResponse(out) ==
    IF out.kind = "return"
    THEN IF validate_docx_file(out.art) THEN Ok(out.art)
         ELSE Fail(500, "generated_docx_file_is_corrupted")
    ELSE IF out.exc.type = "RuntimeError" THEN Fail(503, out.exc.detail)
    ELSE IF out.exc.type = "HTTPException" THEN Fail(out.exc.status, out.exc.detail)
    ELSE Fail(500, "docx_rendering_error")

\* render_docx_raw, lines 1752-1796.
RenderDocxRawResponse(out) ==
    IF out.kind = "return"
    THEN IF validate_docx_file(out.art) THEN Ok(out.art)
         ELSE Fail(500, "generated_docx_file_is_corrupted")
    ELSE IF out.exc.type = "JSONDecodeError" THEN Fail(400, "invalid_json")
    ELSE IF out.exc.type = "RuntimeError" THEN Fail(503, out.exc.detail)
    ELSE IF out.exc.type = "HTTPException" THEN Fail(out.exc.status, out.exc.detail)
    ELSE Fail(500, "docx_rendering_error")

\* Mutant: the converter block is entered whatever PANDOC_AVAILABLE says.
DocxEntryIgnoresFlag(c) == "docx_tmp_out"

\* Line 1380: which block markdown_to_docx_bytes enters first.
DocxEntry(c) == IF c["pandoc"] THEN "docx_tmp_out" ELSE "docx_structural"

\* render_docx up to its call of markdown_to_docx_bytes, lines 1854-1857.
RenderDocx ==
    /\ pc = "handler"
    /\ endpoint = "render_docx"
    /\ pc' = DocxEntry(caps)
    /\ UNCHANGED <<pairVars, widthVars, scanVars, mermaidVars, phase, caps, endpoint, body, calls, disk, created, tmp_out_path,
                   reference_doc_path, pending, fn, response>>

\* render_docx_raw up to its call of markdown_to_docx_bytes, lines 1750-1772.
RenderDocxRaw ==
    /\ pc = "handler"
    /\ endpoint = "render_docx_raw"
    /\ LET pre == RawPrecheck(body) IN
       IF pre.kind = "raise"
       THEN /\ response' = RenderDocxRawResponse(pre)
            /\ pc' = "done"
       ELSE /\ response' = response
            /\ pc' = DocxEntry(caps)
    /\ UNCHANGED <<pairVars, widthVars, scanVars, mermaidVars, phase, caps, endpoint, body, calls, disk, created, tmp_out_path,
                   reference_doc_path, pending, fn>>

\* Lines 1382-1383: the output file is created before the try.
CreateTmpOut ==
    /\ pc = "docx_tmp_out"
    /\ \E ok \in BOOLEAN :
          IF ok
          THEN /\ disk' = disk \cup {"tmp_out"}
               /\ created' = created \cup {"tmp_out"}
               /\ tmp_out_path' = "tmp_out"
               /\ fn' = fn
               /\ pc' = "docx_reference"
          ELSE /\ fn' = Raises("Other")
               /\ pc' = "docx_endpoint"
               /\ UNCHANGED <<disk, created, tmp_out_path>>
    /\ UNCHANGED <<pairVars, widthVars, scanVars, mermaidVars, phase, caps, endpoint, body, calls, reference_doc_path,
                   pending, response>>

\* Line 1386.
CallCreateReferenceDocx ==
    /\ pc = "docx_reference"
    /\ \E how \in ReferenceHows :
          LET r == CreateReferenceDocx(caps, how) IN
          /\ reference_doc_path' = r.path
          /\ disk' = disk \cup r.files
          /\ created' = created \cup r.files
    /\ pc' = "docx_convert"
    /\ UNCHANGED <<pairVars, widthVars, scanVars, mermaidVars, phase, caps, endpoint, body, calls, tmp_out_path, pending,
                   fn, response>>

\* Lines 1388-1429.
ConvertWithPandoc ==
    /\ pc = "docx_convert"
    /\ \E conv \in ConvOutcomes :
          /\ calls' = Append(calls, Call("pandoc", conv.how, "none", conv.art))
          /\ pending' = PandocAttempt(conv)
          /\ disk' = IF conv.how = "removed" THEN disk \ {tmp_out_path} ELSE disk
    /\ pc' = "docx_cleanup"
    /\ UNCHANGED <<pairVars, widthVars, scanVars, mermaidVars, phase, caps, endpoint, body, created, tmp_out_path,
                   reference_doc_path, fn, response>>

\* Lines 1430-1439, then the pending return of line 1425 or the fall through.
CleanupConverter ==
    /\ pc = "docx_cleanup"
    /\ \E outFails \in BOOLEAN, refFails \in BOOLEAN :
          disk' = CleanupConverterFiles(disk, tmp_out_path, reference_doc_path,
                                        outFails, refFails)
    /\ IF pending.kind = "return"
       THEN /\ fn' = pending
            /\ pc' = "docx_endpoint"
       ELSE /\ fn' = fn
            /\ pc' = "docx_structural"
    /\ UNCHANGED <<pairVars, widthVars, scanVars, mermaidVars, phase, caps, endpoint, body, calls, created, tmp_out_path,
                   reference_doc_path, pending, response>>

\* Lines 1441-1621.
BuildWithPythonDocx ==
    /\ pc = "docx_structural"
    /\ IF HTML2DOCX_AVAILABLE(caps)
       THEN \E st \in StructOutcomes :
               /\ fn' = StructuralBackend(st)
               /\ calls' = Append(calls, Call("python_docx", st.how, st.type, st.art))
       ELSE /\ fn' = RaisesExc(Exc("RuntimeError", 0, "no_docx_backend"))
            /\ calls' = calls
    /\ pc' = "docx_endpoint"
    /\ UNCHANGED <<pairVars, widthVars, scanVars, mermaidVars, phase, caps, endpoint, body, disk, created, tmp_out_path,
                   reference_doc_path, pending, response>>

\* The endpoint after markdown_to_docx_bytes returned or raised.
RespondDocx ==
    /\ pc = "docx_endpoint"
    /\ response' = IF endpoint = "render_docx_raw"
                   THEN RenderDocxRawResponse(fn)
                   ELSE RenderDocxResponse(fn)
    /\ pc' = "done"
    /\ UNCHANGED <<pairVars, widthVars, scanVars, mermaidVars, phase, caps, endpoint, body, calls, disk, created, tmp_out_path,
                   reference_doc_path, pending, fn>>

Init ==
    /\ phase = "load"
    /\ caps = NoCaps
    /\ endpoint = "none"
    /\ body = "ok"
    /\ pc = "idle"
    /\ calls = <<>>
    /\ disk = {}
    /\ created = {}
    /\ tmp_out_path = "unbound"
    /\ reference_doc_path = "unbound"
    /\ pending = NotEnded
    /\ fn = NotEnded
    /\ response = NoResponse
    /\ mpc = "idle"
    /\ mmd_path = "None"
    /\ png_path = "None"
    /\ attempted = <<>>
    /\ mpending = NoValue
    /\ mresult = NoValue
    /\ elements = <<>>
    /\ scanner = "none"
    /\ spc = "idle"
    /\ lines = <<>>
    /\ in_code_block = FALSE
    /\ code_lines = <<>>
    /\ code_language = <<>>
    /\ in_table = FALSE
    /\ table_lines = <<>>
    /\ blocks = <<>>
    /\ wpc = "idle"
    /\ max_content_lengths = <<>>
    /\ narrow_cols = <<>>
    /\ medium_cols = <<>>
    /\ wide_cols = <<>>
    /\ narrow_width = Whole(0)
    /\ medium_width = Whole(0)
    /\ remaining_width = Whole(0)
    /\ col_widths = <<>>
    /\ rkind = [r \in Requests |-> "none"]
    /\ rpos = [r \in Requests |-> 0]
    /\ rpath = [r \in Requests |-> [slot \in {"in", "out"} |-> 0]]
    /\ rdata = [r \in Requests |-> [by |-> 0, from |-> 0]]
    /\ issued = {}
    /\ tmpdir = [n \in Names |-> [by |-> 0, from |-> 0]]

Next ==
    \/ LoadModule
    \/ ReceiveRequest
    \/ RenderPdf
    \/ RenderPdfRaw
    \/ RenderDocx
    \/ RenderDocxRaw
    \/ CreateTmpOut
    \/ CallCreateReferenceDocx
    \/ ConvertWithPandoc
    \/ CleanupConverter
    \/ BuildWithPythonDocx
    \/ RespondDocx

Spec == Init /\ [][Next]_vars

(***************************************************************************)
(* The diagram render chain: render_mermaid_diagram, lines 734-819, called *)
(* by markdown_to_pdf_bytes_reportlab at the closing fence of a mermaid    *)
(* block, lines 1101-1151.                                                 *)
(***************************************************************************)
requestVars == <<endpoint, body, pc, calls, tmp_out_path, reference_doc_path,
                 pending, fn, response>>

\* Exception classes that decide which except clause of method 1 runs.
M1ExcTypes == {"TimeoutExpired", "FileNotFoundError", "Other"}

\* Mutant: after a timeout or a missing executable the chain goes to the
\* secondary network service, leaving the primary one out.
AfterM1ExceptionSkipsInk(type) ==
    IF type \in {"TimeoutExpired", "FileNotFoundError"} THEN "m3" ELSE "outer_except"

\* Lines 767 and 808: the inner clause takes TimeoutExpired and
\* FileNotFoundError and goes on to method 2; anything else reaches the
\* outer clause, which returns None.
AfterM1Exception(type) ==
    IF type \in {"TimeoutExpired", "FileNotFoundError"} THEN "m2" ELSE "outer_except"

\* Image bytes of the three methods; "" is the empty byte string.
ImageBytes == {"png_mmdc", "png_mermaid_ink", "png_kroki"}

\* Lines 1101-1110: the assembler, which runs when WeasyPrint is unavailable
\* (line 1268), closes a fence whose language is mermaid/mmd with buffered
\* lines and calls render_mermaid_diagram.
CloseMermaidFence ==
    /\ phase = "serving"
    /\ ~caps["weasyprint"]
    /\ mpc = "idle"
    /\ mpc' = "render_entry"
    /\ UNCHANGED <<pairVars, widthVars, scanVars, phase, caps, requestVars, disk, created, mmd_path, png_path,
                   attempted, mpending, mresult, elements>>

\* Lines 736-741.
RenderEntry ==
    /\ mpc = "render_entry"
    /\ IF ~caps["mermaid"]
       THEN /\ mresult' = ReturnValue("None")
            /\ mpc' = "embed"
       ELSE /\ mresult' = mresult
            /\ mpc' = "m1_create_mmd"
    /\ UNCHANGED <<pairVars, widthVars, scanVars, phase, caps, requestVars, disk, created, mmd_path, png_path,
                   attempted, mpending, elements>>

\* Line 747: NamedTemporaryFile(mode='w', suffix='.mmd', delete=False).
M1CreateMmd ==
    /\ mpc = "m1_create_mmd"
    /\ attempted' = Append(attempted, "mmdc")
    /\ \/ /\ disk' = disk \cup {"mmd"}
          /\ created' = created \cup {"mmd"}
          /\ mpc' = "m1_write"
       \/ /\ \E t \in {"FileNotFoundError", "Other"} : mpc' = AfterM1Exception(t)
          /\ UNCHANGED <<disk, created>>
    /\ UNCHANGED <<pairVars, widthVars, scanVars, phase, caps, requestVars, mmd_path, png_path, mpending,
                   mresult, elements>>

\* Lines 748-749: mmd_path is bound after the write.
M1Write ==
    /\ mpc = "m1_write"
    /\ \/ /\ mmd_path' = "mmd"
          /\ mpc' = "m1_create_png"
       \/ /\ mmd_path' = mmd_path
          /\ mpc' = AfterM1Exception("Other")
    /\ UNCHANGED <<pairVars, widthVars, scanVars, phase, caps, requestVars, disk, created, png_path, attempted,
                   mpending, mresult, elements>>

\* Lines 751-752.
M1CreatePng ==
    /\ mpc = "m1_create_png"
    /\ \/ /\ disk' = disk \cup {"png"}
          /\ created' = created \cup {"png"}
          /\ png_path' = "png"
          /\ mpc' = "m1_run"
       \/ /\ \E t \in {"FileNotFoundError", "Other"} : mpc' = AfterM1Exception(t)
          /\ UNCHANGED <<disk, created, png_path>>
    /\ UNCHANGED <<pairVars, widthVars, scanVars, phase, caps, requestVars, mmd_path, attempted, mpending,
                   mresult, elements>>

\* What subprocess.run and the output file give: the call raises, or returns
\* with an exit code and the output file non-empty, empty or gone; the read
\* of line 762 may raise.
RunOutcomes ==
    {[how |-> "raise", type |-> t, rc |-> 0, png |-> "empty", read |-> "ok"] :
        t \in M1ExcTypes}
    \cup [how : {"exit"}, type : {"none"}, rc : {0, 1},
          png : {"data", "empty", "gone"}, read : {"ok", "FileNotFoundError", "Other"}]

\* Line 760.
M1Succeeded(r) == r.rc = 0 /\ r.png # "gone" /\ r.png # "empty"

\* Lines 754-768: where method 1 goes after the renderer was run.
AfterM1Run(r) ==
    IF r.how = "raise" THEN AfterM1Exception(r.type)
    ELSE IF M1Succeeded(r)
    THEN IF r.read = "ok" THEN "finally" ELSE AfterM1Exception(r.read)
    ELSE "m2"

M1Run ==
    /\ mpc = "m1_run"
    /\ \E r \in RunOutcomes :
          /\ mpc' = AfterM1Run(r)
          /\ mpending' = IF AfterM1Run(r) = "finally"
                         THEN ReturnValue("png_mmdc") ELSE mpending
          /\ disk' = IF r.how = "exit" /\ r.png = "gone" THEN disk \ {png_path} ELSE disk
    /\ UNCHANGED <<pairVars, widthVars, scanVars, phase, caps, requestVars, created, mmd_path, png_path,
                   attempted, mresult, elements>>

\* What requests.get gives: it raises (the import of requests included), or
\* answers with a status and a body.
HttpOutcomes(png) ==
    {[how |-> "raise", status |-> 0, content |-> ""]}
    \cup [how : {"response"}, status : {200, 404}, content : {"", png}]

\* Lines 779 and 798.
HttpSucceeded(h) == h.how = "response" /\ h.status = 200 /\ h.content # ""

\* Lines 771-785.
M2MermaidInk ==
    /\ mpc = "m2"
    /\ attempted' = Append(attempted, "mermaid_ink")
    /\ \E h \in HttpOutcomes("png_mermaid_ink") :
          IF HttpSucceeded(h)
          THEN /\ mpending' = ReturnValue(h.content)
               /\ mpc' = "finally"
          ELSE /\ mpending' = mpending
               /\ mpc' = "m3"
    /\ UNCHANGED <<pairVars, widthVars, scanVars, phase, caps, requestVars, disk, created, mmd_path, png_path,
                   mresult, elements>>

\* Lines 788-806.
M3Kroki ==
    /\ mpc = "m3"
    /\ attempted' = Append(attempted, "kroki")
    /\ \E h \in HttpOutcomes("png_kroki") :
          mpending' = IF HttpSucceeded(h)
                      THEN ReturnValue(h.content) ELSE ReturnValue("None")
    /\ mpc' = "finally"
    /\ UNCHANGED <<pairVars, widthVars, scanVars, phase, caps, requestVars, disk, created, mmd_path, png_path,
                   mresult, elements>>

\* Lines 808-810.
OuterExcept ==
    /\ mpc = "outer_except"
    /\ mpending' = ReturnValue("None")
    /\ mpc' = "finally"
    /\ UNCHANGED <<pairVars, widthVars, scanVars, phase, caps, requestVars, disk, created, mmd_path, png_path,
                   attempted, mresult, elements>>

\* Lines 813-817: the files left by the clean-up and whether it raised; an
\* os.remove that raises ends it.
CleanupMermaidFiles(d, mmd, png, mmdFails, pngFails) ==
    IF mmd # "None" /\ mmd \in d /\ mmdFails
    THEN [disk |-> d, raised |-> TRUE]
    ELSE LET d1 == IF mmd # "None" THEN d \ {mmd} ELSE d IN
         IF png # "None" /\ png \in d1
         THEN IF pngFails THEN [disk |-> d1, raised |-> TRUE]
              ELSE [disk |-> d1 \ {png}, raised |-> FALSE]
         ELSE [disk |-> d1, raised |-> FALSE]

\* Mutant: the clean-up is not wrapped in try/except.
FinallyOutcomeUnguarded(p, raised) ==
    IF raised THEN RaiseType("Other") ELSE p

\* Lines 811-819: the except of line 818 swallows a clean-up exception, so
\* the function ends the way the try block ended.
FinallyOutcome(p, raised) == p

Finally ==
    /\ mpc = "finally"
    /\ \E mmdFails \in BOOLEAN, pngFails \in BOOLEAN :
          LET c == CleanupMermaidFiles(disk, mmd_path, png_path, mmdFails, pngFails) IN
          /\ disk' = c.disk
          /\ mresult' = FinallyOutcome(mpending, c.raised)
    /\ mpc' = "embed"
    /\ UNCHANGED <<pairVars, widthVars, scanVars, phase, caps, requestVars, created, mmd_path, png_path,
                   attempted, mpending, elements>>

\* Lines 1111-1144: what the assembler appends for the diagram.  embedOk is
\* whether building the image element (lines 1114-1135) succeeds.
DiagramElements(r, embedOk) ==
    IF r.value # "None" /\ r.value # ""
    THEN IF embedOk THEN <<"image", "spacer">> ELSE <<"placeholder">>
    ELSE <<"placeholder">>

\* Lines 1110-1156.  The call of line 1110 is in no try: were
\* render_mermaid_diagram to raise, the assembler would raise.
EmbedDiagram ==
    /\ mpc = "embed"
    /\ IF mresult.kind = "raise"
       THEN /\ mpc' = "assembler_raised"
            /\ elements' = elements
       ELSE /\ \E embedOk \in BOOLEAN :
                  elements' = elements \o DiagramElements(mresult, embedOk)
            /\ mpc' = "next_line"
    /\ UNCHANGED <<pairVars, widthVars, scanVars, phase, caps, requestVars, disk, created, mmd_path, png_path,
                   attempted, mpending, mresult>>

NextMermaid ==
    \/ LoadModule
    \/ CloseMermaidFence
    \/ RenderEntry
    \/ M1CreateMmd
    \/ M1Write
    \/ M1CreatePng
    \/ M1Run
    \/ M2MermaidInk
    \/ M3Kroki
    \/ OuterExcept
    \/ Finally
    \/ EmbedDiagram

SpecMermaid == Init /\ [][NextMermaid]_vars

\* A request through the DOCX orchestrator and a diagram rendered for a PDF
\* request, in any interleaving over the one temporary directory.
NextCleanup ==
    \/ Next
    \/ NextMermaid

SpecCleanup == Init /\ [][NextCleanup]_vars

(***************************************************************************)
(* The line scanners: the loop of markdown_to_pdf_bytes_reportlab (lines   *)
(* 1096-1245), the loop of the python-docx branch of                       *)
(* markdown_to_docx_bytes (lines 1504-1594) and                            *)
(* process_mermaid_diagrams_in_markdown (lines 382-418).  A line is a      *)
(* sequence of one-character strings.                                      *)
(***************************************************************************)
Whitespace == {" ", "\t", "\n", "\r"}

RECURSIVE LStrip(_)
LStrip(s) == IF s # <<>> /\ Head(s) \in Whitespace THEN LStrip(Tail(s)) ELSE s

RECURSIVE RStrip(_)
RStrip(s) ==
    IF s # <<>> /\ s[Len(s)] \in Whitespace THEN RStrip(SubSeq(s, 1, Len(s) - 1)) ELSE s

\* str.strip().
Strip(s) == RStrip(LStrip(s))

\* s[n:].
Drop(s, n) == SubSeq(s, n + 1, Len(s))

\* ch in s.
Contains(s, ch) == \E i \in 1..Len(s) : s[i] = ch

\* s.split(ch).
RECURSIVE Split(_, _)
Split(s, ch) ==
    IF Contains(s, ch)
    THEN LET i == CHOOSE k \in 1..Len(s) :
                      s[k] = ch /\ \A j \in 1..(k - 1) : s[j] # ch
         IN  <<SubSeq(s, 1, i - 1)>> \o Split(Drop(s, i), ch)
    ELSE <<s>>

\* '\n'.join(ls).
RECURSIVE Join(_)
Join(ls) ==
    IF ls = <<>> THEN <<>>
    ELSE IF Len(ls) = 1 THEN ls[1]
    ELSE ls[1] \o <<"\n">> \o Join(Tail(ls))

\* str.lower() on the letters the sample lines use.
LowerChar(c) ==
    CASE c = "M" -> "m" [] c = "E" -> "e" [] c = "R" -> "r" [] c = "A" -> "a"
      [] c = "I" -> "i" [] c = "D" -> "d" [] OTHER -> c

Lower(s) == [i \in 1..Len(s) |-> LowerChar(s[i])]

Digits == {"0", "1", "2", "3", "4", "5", "6", "7", "8", "9"}

\* str.isdigit().
IsDigit(s) == s # <<>> /\ \A i \in 1..Len(s) : s[i] \in Digits

\* The backquote character, which a TLA+ string cannot hold.
Backquote == "bq"

Fence == <<Backquote, Backquote, Backquote>>
Mermaid == <<"m", "e", "r", "m", "a", "i", "d">>
Mmd == <<"m", "m", "d">>

\* Lines 822-824.
is_mermaid_diagram(code_block, language) ==
    language # <<>> /\ Lower(language) \in {Mermaid, Mmd}

\* Lines 862-877: the keywords and the type each stands for, in the order
\* of the if/elif chain.
DiagramKeywords ==
    << [kw |-> <<"g", "r", "a", "p", "h">>, type |-> "Flowchart"],
       [kw |-> <<"s", "e", "q", "u", "e", "n", "c", "e", "D", "i", "a", "g", "r", "a", "m">>,
        type |-> "Sequence Diagram"],
       [kw |-> <<"c", "l", "a", "s", "s", "D", "i", "a", "g", "r", "a", "m">>,
        type |-> "Class Diagram"],
       [kw |-> <<"s", "t", "a", "t", "e", "D", "i", "a", "g", "r", "a", "m">>,
        type |-> "State Diagram"],
       [kw |-> <<"e", "r", "D", "i", "a", "g", "r", "a", "m">>,
        type |-> "Entity Relationship Diagram"],
       [kw |-> <<"j", "o", "u", "r", "n", "e", "y">>, type |-> "User Journey"],
       [kw |-> <<"g", "a", "n", "t", "t">>, type |-> "Gantt Chart"],
       [kw |-> <<"p", "i", "e">>, type |-> "Pie Chart"] >>

\* Mutant: the type is not read from the first line.
DiagramTypeUnclassified(first_line) == "Diagram"

\* Lines 860-877: the first branch of the chain whose keyword the line
\* starts with, "Diagram" when there is none.
DiagramType(first_line) ==
    LET matching == {i \in 1..Len(DiagramKeywords) :
                        StartsWith(first_line, DiagramKeywords[i].kw)}
    IN  IF matching = {} THEN "Diagram"
        ELSE DiagramKeywords[CHOOSE i \in matching : \A j \in matching : i <= j].type

\* Lines 855-879: the pieces of the f-string of line 879, in order.
create_mermaid_placeholder(mermaid_code) ==
    LET split == Split(Strip(mermaid_code), "\n")
        first_line == split[1]
    IN  <<"[", DiagramType(first_line), " - ", "Mermaid diagram rendering not available", "]">>

\* Lines 430 and 1668: [cell.strip() for cell in line.split('|') if cell.strip()].
Cells(line) ==
    LET parts == Split(line, "|")
        stripped == [i \in 1..Len(parts) |-> Strip(parts[i])]
        NonEmpty(cell) == cell # <<>>
    IN  SelectSeq(stripped, NonEmpty)

\* Mutant: no cell is taken for a separator cell.
SeparatorCellNever(cell) == FALSE

\* Lines 436 and 1669: re.match(r'^[-:\s]+$', cell).
SeparatorCell(cell) ==
    /\ cell # <<>>
    /\ \A i \in 1..Len(cell) : cell[i] \in {"-", ":"} \cup Whitespace

\* Lines 426-441: the rows kept from the table lines.
ParsedRows(tlines) ==
    LET cells == [i \in 1..Len(tlines) |-> Cells(tlines[i])]
        Keep(row) == row # <<>> /\ ~(\A i \in 1..Len(row) : SeparatorCell(row[i]))
    IN  SelectSeq(cells, Keep)

\* str.find(sub) + 1: the first position of sub in s, or 0.
IndexOf(s, sub) ==
    LET At(i) == SubSeq(s, i, i + Len(sub) - 1) = sub
        hits == { i \in 1..(Len(s) + 1 - Len(sub)) : At(i) }
    IN  IF Len(sub) > Len(s) \/ hits = {} THEN 0
        ELSE CHOOSE i \in hits : \A j \in hits : i <= j

\* str.replace(old, new).
RECURSIVE Replace(_, _, _)
Replace(s, old, new) ==
    LET i == IndexOf(s, old)
    IN  IF i = 0 THEN s
        ELSE SubSeq(s, 1, i - 1) \o new \o Replace(Drop(s, i + Len(old) - 1), old, new)

\* str.split().
RECURSIVE SplitWords(_)
SplitWords(s) ==
    LET t == LStrip(s)
        stops == { i \in 1..Len(t) : t[i] \in Whitespace }
        n == IF stops = {} THEN Len(t)
             ELSE (CHOOSE i \in stops : \A j \in stops : i <= j) - 1
    IN  IF t = <<>> THEN <<>> ELSE <<SubSeq(t, 1, n)>> \o SplitWords(Drop(t, n))

\* sep.join(ls).
RECURSIVE JoinWith(_, _)
JoinWith(ls, sep) ==
    IF ls = <<>> THEN <<>>
    ELSE IF Len(ls) = 1 THEN ls[1]
    ELSE ls[1] \o sep \o JoinWith(Tail(ls), sep)

BrTag == <<"<", "b", "r", "/", ">">>

BrPlaceholder == <<"_", "_", "_", "B", "R", "_", "T", "A", "G", "_", "_", "_">>

\* Lines 726 and 729: re.sub(mark + '(.*?)' + mark, r'<b>\1</b>', text).
RECURSIVE BoldSub(_, _)
BoldSub(s, mark) ==
    LET i == IndexOf(s, mark)
        rest == Drop(s, i + Len(mark) - 1)
        j == IndexOf(rest, mark)
    IN  IF i = 0 \/ j = 0 THEN s
        ELSE SubSeq(s, 1, i - 1) \o <<"<", "b", ">">> \o SubSeq(rest, 1, j - 1)
                 \o <<"<", "/", "b", ">">> \o BoldSub(Drop(rest, j + Len(mark) - 1), mark)

\* Lines 709-731.
process_bold_text(text) ==
    LET kept == Replace(Replace(text, BrTag, BrPlaceholder), <<"<", "b", "r", ">">>, BrPlaceholder)
        amp == Replace(kept, <<"&">>, <<"&", "a", "m", "p", ";">>)
        escaped == Replace(Replace(amp, <<"<">>, <<"&", "l", "t", ";">>),
                           <<">">>, <<"&", "g", "t", ";">>)
        restored == Replace(escaped, BrPlaceholder, BrTag)
    IN  BoldSub(BoldSub(restored, <<"*", "*">>), <<"_", "_">>)

\* Lines 617-632: the words packed into lines of about 40 characters.
RECURSIVE SoftBreakLines(_, _, _)
SoftBreakLines(words, lns, current_line) ==
    IF words = <<>>
    THEN IF current_line # <<>> THEN Append(lns, current_line) ELSE lns
    ELSE LET word == Head(words)
         IN  IF Len(current_line) + 1 + Len(word) <= 40
             THEN SoftBreakLines(Tail(words), lns,
                                 IF current_line # <<>> THEN current_line \o <<" ">> \o word
                                 ELSE word)
             ELSE IF current_line # <<>>
             THEN SoftBreakLines(Tail(words), Append(lns, current_line), word)
             ELSE SoftBreakLines(Tail(words), Append(lns, word), <<>>)

\* Lines 605-634: the markup of the Paragraph built for a cell.
ProcessedCell(cell) ==
    LET processed_cell == Replace(Replace(process_bold_text(cell),
                                          <<"<", "b", "r", ">">>, BrTag),
                                  <<"<", "b", "r", " ", "/", ">">>, BrTag)
    IN  IF Len(processed_cell) > 80
        THEN JoinWith(SoftBreakLines(SplitWords(processed_cell), <<>>, <<>>), BrTag)
        ELSE processed_cell

\* Lines 598-639: table_data, a row of Paragraphs for every parsed row.
TableData(rows) ==
    [i \in 1..Len(rows) |-> [j \in 1..Len(rows[i]) |-> ProcessedCell(rows[i][j])]]

\* Lines 452 and 1675: the column count.
NumCols(rows) == IF rows # <<>> THEN Len(rows[1]) ELSE 1

NoTable == [none |-> TRUE, rows |-> <<>>, table_data |-> <<>>, num_cols |-> 0]

\* Lines 421-643: None, or the Table built from the rows: the Paragraphs of
\* table_data and one column width for each cell of the first row.
parse_markdown_table(tlines) ==
    IF tlines = <<>> THEN NoTable
    ELSE IF Len(ParsedRows(tlines)) < 2 THEN NoTable
    ELSE [none |-> FALSE, rows |-> ParsedRows(tlines),
          table_data |-> TableData(ParsedRows(tlines)),
          num_cols |-> NumCols(ParsedRows(tlines))]

\* An element appended to the output: the branch that built it, its level
\* (heading level, bullet indent), the source lines it was built from and its
\* text where the text is not the source.
Block(kind, level, src, text) ==
    [kind |-> kind, level |-> level, src |-> src, text |-> text]

\* Lines 1659-1686: the doc with the table added, or as it was.
add_table_to_doc(doc, tlines) ==
    LET cells == [i \in 1..Len(tlines) |-> Cells(tlines[i])]
        Keep(row) == row # <<>> /\ ~(\A i \in 1..Len(row) : SeparatorCell(row[i]))
        rows == SelectSeq(cells, Keep)
        num_cols == NumCols(rows)
        grid == [i \in 1..Len(rows) |->
                    [j \in 1..num_cols |-> IF j <= Len(rows[i]) THEN rows[i][j] ELSE <<>>]]
    IN  IF Len(rows) < 2 THEN doc
        ELSE Append(doc, Block("table", 0, tlines, grid))

\* s[a:b].
Slice(s, a, b) == SubSeq(s, a + 1, IF b < Len(s) THEN b ELSE Len(s))

Hashes(n) == [i \in 1..n |-> "#"]

\* What render_mermaid_diagram hands the assembler at line 1110.
RenderResults == {ReturnValue(v) : v \in ImageBytes \cup {"None"}}

\* Lines 1110-1144: the elements appended for a diagram.
PdfDiagramBlocks(r, embedOk) ==
    LET kinds == DiagramElements(r, embedOk)
        code_text == Join(code_lines)
    IN  [i \in 1..Len(kinds) |->
            IF kinds[i] = "placeholder"
            THEN Block("placeholder", 0, code_lines, create_mermaid_placeholder(code_text))
            ELSE IF kinds[i] = "image"
            THEN Block("image", 0, code_lines, <<>>)
            ELSE Block("spacer", 0, <<>>, <<>>)]

\* Lines 1171-1176 and 1241-1245: the Table and the Spacer after it, or nothing.
PdfTableBlocks(tlines) ==
    LET table == parse_markdown_table(tlines)
    IN  IF table.none THEN <<>>
        ELSE <<Block("table", 0, tlines, table.table_data), Block("spacer", 0, <<>>, <<>>)>>

\* Lines 1186-1197.
PdfHeadingLevel(line) ==
    IF StartsWith(line, Hashes(4) \o <<" ">>) THEN 4
    ELSE IF StartsWith(line, Hashes(3) \o <<" ">>) THEN 3
    ELSE IF StartsWith(line, Hashes(2) \o <<" ">>) THEN 2
    ELSE IF StartsWith(line, Hashes(1) \o <<" ">>) THEN 1
    ELSE 0

\* Line 1219.
PdfIsNumbered(line) ==
    \E d \in Digits \ {"0"} : StartsWith(line, <<d, ".", " ">>)

\* Lines 1208-1211.
RECURSIVE IndentLevel(_)
IndentLevel(original_line) ==
    IF StartsWith(original_line, <<" ", " ">>)
    THEN 1 + IndentLevel(Drop(original_line, 2))
    ELSE 0

\* Lines 1181-1233: the element appended for a line that is neither a fence,
\* nor code, nor a table line.  The inline formatting of the text of list
\* items and paragraphs is left out.
PdfLineBlock(original_line) ==
    LET line == Strip(original_line)
        level == PdfHeadingLevel(line)
    IN  IF line = <<>> THEN Block("spacer", 0, <<original_line>>, <<>>)
        ELSE IF level > 0
        THEN Block("heading", level, <<original_line>>, Strip(Drop(line, level + 1)))
        ELSE IF StartsWith(line, <<"-", " ">>) \/ StartsWith(line, <<"*", " ">>)
        THEN Block("bullet", IndentLevel(original_line), <<original_line>>, <<>>)
        ELSE IF PdfIsNumbered(line)
        THEN Block("numbered", 0, <<original_line>>, <<>>)
        ELSE Block("paragraph", 0, <<original_line>>, <<>>)

\* The locals of a scanning function and its output.
Locals ==
    [in_code_block |-> in_code_block, code_lines |-> code_lines,
     code_language |-> code_language, in_table |-> in_table,
     table_lines |-> table_lines, blocks |-> blocks]

\* Lines 1096-1233: one turn of the loop of markdown_to_pdf_bytes_reportlab.
PdfStep(original_line, r, embedOk) ==
    LET line == Strip(original_line) IN
    IF StartsWith(line, Fence)
    THEN IF in_code_block
         THEN IF code_lines # <<>>
              THEN [Locals EXCEPT
                      !.blocks =
                          IF code_language # <<>>
                             /\ is_mermaid_diagram(Join(code_lines), code_language)
                          THEN blocks \o PdfDiagramBlocks(r, embedOk)
                          ELSE Append(blocks, Block("code", 0, code_lines, Join(code_lines))),
                      !.code_lines = <<>>,
                      !.code_language = <<>>,
                      !.in_code_block = FALSE]
              ELSE [Locals EXCEPT !.in_code_block = FALSE]
         ELSE [Locals EXCEPT !.code_language = Strip(Drop(line, 3)),
                             !.in_code_block = TRUE]
    ELSE IF in_code_block
    THEN [Locals EXCEPT !.code_lines = Append(code_lines, original_line)]
    ELSE IF Contains(line, "|") /\ ~StartsWith(line, <<"#">>)
    THEN [Locals EXCEPT
            !.in_table = TRUE,
            !.table_lines = Append(IF in_table THEN table_lines ELSE <<>>, original_line)]
    ELSE [Locals EXCEPT
            !.blocks = blocks
                       \o (IF in_table /\ table_lines # <<>>
                           THEN PdfTableBlocks(table_lines) ELSE <<>>)
                       \o <<PdfLineBlock(original_line)>>,
            !.in_table = FALSE,
            !.table_lines = IF in_table THEN <<>> ELSE table_lines]

\* The locals take the values of record n.
SetLocals(n) ==
    /\ in_code_block' = n.in_code_block
    /\ code_lines' = n.code_lines
    /\ code_language' = n.code_language
    /\ in_table' = n.in_table
    /\ table_lines' = n.table_lines
    /\ blocks' = n.blocks

Scanners ==
    {"markdown_to_pdf_bytes_reportlab", "markdown_to_docx_bytes",
     "process_mermaid_diagrams_in_markdown"}

\* A scanning function is called and splits its text into lines.
StartScan ==
    /\ spc = "idle"
    /\ \E s \in Scanners : scanner' = s
    /\ spc' = "loop"
    /\ UNCHANGED <<pairVars, widthVars, phase, caps, renderVars, mermaidVars, lines, in_code_block,
                   code_lines, code_language, in_table, table_lines, blocks>>

PdfLine(original_line) ==
    /\ scanner = "markdown_to_pdf_bytes_reportlab"
    /\ spc = "loop"
    /\ lines' = Append(lines, original_line)
    /\ \E r \in RenderResults, embedOk \in BOOLEAN :
          SetLocals(PdfStep(original_line, r, embedOk))
    /\ UNCHANGED <<pairVars, widthVars, phase, caps, renderVars, mermaidVars, scanner, spc>>

\* Lines 1235-1245: after the last line.
PdfEnd ==
    /\ scanner = "markdown_to_pdf_bytes_reportlab"
    /\ spc = "loop"
    /\ blocks' = blocks
                 \o (IF code_lines # <<>>
                     THEN <<Block("code", 0, code_lines, Join(code_lines))>> ELSE <<>>)
                 \o (IF table_lines # <<>> THEN PdfTableBlocks(table_lines) ELSE <<>>)
    /\ spc' = "done"
    /\ UNCHANGED <<pairVars, widthVars, phase, caps, renderVars, mermaidVars, scanner, lines,
                   in_code_block, code_lines, code_language, in_table, table_lines>>

\* Mutant: the DOCX loop recognises the four heading levels of the PDF loop.
DocxHeadingLevelFour(stripped) == PdfHeadingLevel(stripped)

\* Lines 1537-1566.
DocxHeadingLevel(stripped) ==
    IF \E n \in 1..6 : StartsWith(stripped, Hashes(n) \o <<" ">>)
    THEN CHOOSE n \in 1..6 : StartsWith(stripped, Hashes(n) \o <<" ">>)
    ELSE 0

\* Line 1577.
DocxIsNumbered(stripped) ==
    /\ IsDigit(Slice(stripped, 0, 2))
    /\ Slice(stripped, 2, 4) \in {<<".", " ">>, <<")", " ">>}

\* Lines 1537-1589: what is added to the doc for a line that is neither
\* empty nor a table line.  The inline formatting of the runs is left out.
DocxLineBlock(line) ==
    LET stripped == Strip(line)
        level == DocxHeadingLevel(stripped)
    IN  IF level > 0
        THEN Block("heading", level, <<line>>, Drop(stripped, level + 1))
        ELSE IF StartsWith(stripped, <<"-", " ">>) \/ StartsWith(stripped, <<"*", " ">>)
        THEN Block("bullet", 0, <<line>>, <<>>)
        ELSE IF DocxIsNumbered(stripped)
        THEN Block("numbered", 0, <<line>>, <<>>)
        ELSE IF stripped \in {<<"-", "-", "-">>, <<"*", "*", "*">>, <<"_", "_", "_">>}
        THEN Block("rule", 0, <<line>>, <<>>)
        ELSE Block("paragraph", 0, <<line>>, <<>>)

\* Lines 1510-1530: the doc after the table that was being buffered is closed.
DocxCloseTable ==
    IF in_table /\ Len(table_lines) >= 2
    THEN add_table_to_doc(blocks, table_lines) ELSE blocks

\* Lines 1509-1589: one turn of the loop of the python-docx branch.
DocxStep(line) ==
    LET stripped == Strip(line) IN
    IF stripped = <<>>
    THEN [Locals EXCEPT !.blocks = DocxCloseTable,
                        !.in_table = FALSE,
                        !.table_lines = IF in_table THEN <<>> ELSE table_lines]
    ELSE IF Contains(stripped, "|") /\ ~StartsWith(stripped, <<"#">>)
    THEN [Locals EXCEPT
            !.in_table = TRUE,
            !.table_lines = Append(IF in_table THEN table_lines ELSE <<>>, line)]
    ELSE [Locals EXCEPT
            !.blocks = Append(DocxCloseTable, DocxLineBlock(line)),
            !.in_table = FALSE,
            !.table_lines = IF in_table THEN <<>> ELSE table_lines]

DocxLine(line) ==
    /\ scanner = "markdown_to_docx_bytes"
    /\ spc = "loop"
    /\ lines' = Append(lines, line)
    /\ SetLocals(DocxStep(line))
    /\ UNCHANGED <<pairVars, widthVars, phase, caps, renderVars, mermaidVars, scanner, spc>>

\* Lines 1591-1593: after the last line.
DocxEnd ==
    /\ scanner = "markdown_to_docx_bytes"
    /\ spc = "loop"
    /\ blocks' = DocxCloseTable
    /\ spc' = "done"
    /\ UNCHANGED <<pairVars, widthVars, phase, caps, renderVars, mermaidVars, scanner, lines,
                   in_code_block, code_lines, code_language, in_table, table_lines>>

\* Lines 390-416: one turn of the loop of
\* process_mermaid_diagrams_in_markdown; a block of kind "line" is one string
\* appended to processed_lines.
PreStep(line) ==
    IF StartsWith(Strip(line), Fence)
    THEN IF in_code_block
         THEN [Locals EXCEPT
                 !.blocks =
                     IF code_language # <<>>
                        /\ is_mermaid_diagram(Join(code_lines), code_language)
                     THEN Append(blocks, Block("mermaid_div", 0, code_lines, Join(code_lines)))
                     ELSE blocks
                          \o <<Block("line", 0, <<Fence \o code_language>>, <<>>)>>
                          \o [i \in 1..Len(code_lines) |->
                                 Block("line", 0, <<code_lines[i]>>, <<>>)]
                          \o <<Block("line", 0, <<Fence>>, <<>>)>>,
                 !.code_lines = <<>>,
                 !.code_language = <<>>,
                 !.in_code_block = FALSE]
         ELSE [Locals EXCEPT !.code_language = Strip(Drop(Strip(line), 3)),
                             !.in_code_block = TRUE]
    ELSE IF in_code_block
    THEN [Locals EXCEPT !.code_lines = Append(code_lines, line)]
    ELSE [Locals EXCEPT !.blocks = Append(blocks, Block("line", 0, <<line>>, <<>>))]

PreLine(line) ==
    /\ scanner = "process_mermaid_diagrams_in_markdown"
    /\ spc = "loop"
    /\ lines' = Append(lines, line)
    /\ SetLocals(PreStep(line))
    /\ UNCHANGED <<pairVars, widthVars, phase, caps, renderVars, mermaidVars, scanner, spc>>

\* Line 418: after the last line the function joins processed_lines and
\* returns.
PreEnd ==
    /\ scanner = "process_mermaid_diagrams_in_markdown"
    /\ spc = "loop"
    /\ spc' = "done"
    /\ UNCHANGED <<pairVars, widthVars, phase, caps, renderVars, mermaidVars, scanner, lines,
                   in_code_block, code_lines, code_language, in_table, table_lines,
                   blocks>>

\* The longest document of fence and table lines, and the longest document
\* of heading, list and paragraph lines.
MaxLines == 5
MaxShortLines == 2

\* Lines of a document with fences and tables: a fence, a fence tagged
\* mermaid, a table row, a separator row and a diagram source line.
FenceLines ==
    { Fence,
      Fence \o Mermaid,
      <<"a", "|", "b">>,
      <<"-", "|", ":", "-">>,
      DiagramKeywords[2].kw }

\* Lines of a document of headings, list items and paragraphs.
ShortLines ==
    { Hashes(n) \o <<" ", "h">> : n \in 1..7 }
    \cup { <<d>> \o sep \o <<"x">> :
              d \in {"0", "1", "9"}, sep \in {<<".", " ">>, <<")", " ">>} }
    \cup { <<"#", "#", "h">>, <<" ", "#", " ", "h">>, <<"#", " ">>, <<"#", "|", "x">>,
           <<"1", "0", ".", " ", "x">>, <<"1", "2", ")", " ", "x">>,
           <<"1", ".", "x">>, <<"a", ".", " ", "x">>, <<" ", "2", ".", " ", "x">>,
           <<>>, <<"x">>, <<"-", " ", "x">>, <<" ", " ", "*", " ", "x">>,
           <<"-", "-", "-">>, <<"a", "|", "b">>, Fence, Fence \o <<"M", "M", "D">>,
           DiagramKeywords[1].kw }

\* The scanning functions run on a document of at most max lines drawn
\* from the set input.
ScanNext(input, max) ==
    \/ StartScan
    \/ \E line \in input : Len(lines) < max /\ PdfLine(line)
    \/ PdfEnd
    \/ \E line \in input : Len(lines) < max /\ DocxLine(line)
    \/ DocxEnd
    \/ \E line \in input : Len(lines) < max /\ PreLine(line)
    \/ PreEnd

NextBlocks == ScanNext(FenceLines, MaxLines)

SpecBlocks == Init /\ [][NextBlocks]_vars

NextLines == ScanNext(ShortLines, MaxShortLines)

SpecLines == Init /\ [][NextLines]_vars

\* The longest document of table lines.
MaxTableLines == 3

\* k characters of eight-letter words.
SampleWords(k) == [i \in 1..k |-> IF i % 9 = 0 THEN " " ELSE "w"]

\* Lines of a table: a header, a separator row, a row with an empty interior
\* cell, a row of one cell between pipes, a row of three cells, and rows
\* whose cells hold bold markers and line-break markup, one of them in a
\* cell of more than 80 characters.
TableLines ==
    { <<"a", "|", "b">>,
      <<"-", "|", ":", "-">>,
      <<"a", "|", "|", "b">>,
      <<"|", "c", "|">>,
      <<"a", "|", "b", "|", "c">>,
      <<"x", "<", "b", "r", ">", "y", "|", "*", "*", "b", "*", "*">>,
      <<"x", "<", "b", "r", " ", "/", ">", "y", "|", "u", "<", "b", "r", "/", ">", "v">>,
      SampleWords(44) \o <<"<", "b", "r", ">">> \o SampleWords(44) \o <<"|", "b">> }

NextTables == ScanNext(TableLines, MaxTableLines)

SpecTables == Init /\ [][NextTables]_vars

(***************************************************************************)
(* The width plan of parse_markdown_table (lines 446-543).  Columns are    *)
(* numbered from 1 here and from 0 in the code.                            *)
(***************************************************************************)

\* Line 447: A4[0], 210 mm in points (210 * 72 / 25.4).
page_width == Rat(75600, 127)

\* Lines 448-450: the page width minus the two margins of 20 points.
available_width == RSub(RSub(page_width, Whole(20)), Whole(20))

\* Lines 452-465: the column count is the cell count of the first row; the
\* longest cell of each column, over the rows that have the column.
MaxContentLengths(rows) ==
    LET num_cols == NumCols(rows)
        RECURSIVE MaxLength(_, _)
        MaxLength(col, r) ==
            IF r = 0 THEN 0
            ELSE LET max_length == MaxLength(col, r - 1)
                 IN  IF col <= Len(rows[r]) /\ Len(rows[r][col]) > max_length
                     THEN Len(rows[r][col])
                     ELSE max_length
    IN  [col \in 1..num_cols |-> MaxLength(col, Len(rows))]

\* Lines 472-478: the class of a column by its longest cell.
ColumnClass(content_length) ==
    IF content_length <= 3 THEN "narrow"
    ELSE IF content_length <= 15 THEN "medium"
    ELSE "wide"

ColumnsOfClass(lengths, class) ==
    SelectSeq([i \in 1..Len(lengths) |-> i],
              LAMBDA i : ColumnClass(lengths[i]) = class)

\* Lines 488-490 and 499-501: what the narrow and medium budgets leave.
RemainingWidth(n, nw, m, mw) ==
    RSub(RSub(available_width, RMul(Whole(n), nw)), RMul(Whole(m), mw))

\* Lines 495-498: the budgets of the shrink step.
ShrunkNarrowWidth(n, nw, remaining) ==
    IF n > 0 THEN RMax(Whole(12), RDiv(RMul(remaining, Rat(15, 100)), Whole(n))) ELSE nw

ShrunkMediumWidth(m, mw, remaining) ==
    IF m > 0 THEN RMax(Whole(30), RDiv(RMul(remaining, Rat(25, 100)), Whole(m))) ELSE mw

\* Mutant: a wide column takes its proportional share without the cap.
WideWidthUncapped(content_length, total_wide_weight, remaining, count) ==
    IF total_wide_weight > 0
    THEN RMul(Rat(content_length, total_wide_weight), remaining)
    ELSE RDiv(remaining, Whole(count))

\* Lines 509-517: the width of one wide column.
WideWidth(content_length, total_wide_weight, remaining, count) ==
    IF total_wide_weight > 0
    THEN LET proportional_width == RMul(Rat(content_length, total_wide_weight), remaining)
             max_width == RMul(available_width, Rat(8, 10))
         IN  RMin(max_width, proportional_width)
    ELSE RDiv(remaining, Whole(count))

RECURSIVE SumOf(_)
SumOf(ns) == IF ns = <<>> THEN 0 ELSE ns[1] + SumOf(Tail(ns))

\* A cell of the given length.
CellOfLength(k) == [i \in 1..k |-> "x"]

\* The longest tables the width plan is run on, by class of column.
MaxNarrow == 48
MaxMedium == 20

\* The lengths of the wide cells of a header row.
WideSamples == { <<>>, <<16>>, <<100>>, <<16, 16>>, <<16, 80>>, <<20, 30, 50>> }

\* A header row of n narrow, m medium and the given wide cells, over a data
\* row of one-character cells.
SampleRows(n, m, wide) ==
    LET narrow == [k \in 1..n |-> CellOfLength(IF k % 2 = 1 THEN 3 ELSE 1)]
        medium == [k \in 1..m |-> CellOfLength(IF k % 2 = 1 THEN 15 ELSE 4)]
        header == narrow \o medium \o [k \in 1..Len(wide) |-> CellOfLength(wide[k])]
    IN  <<header, [k \in 1..Len(header) |-> CellOfLength(1)]>>

\* Lines 452-465.
MeasureColumns ==
    /\ wpc = "idle"
    /\ \E n \in 0..MaxNarrow, m \in 0..MaxMedium, wide \in WideSamples :
          /\ n + m + Len(wide) > 0
          /\ max_content_lengths' = MaxContentLengths(SampleRows(n, m, wide))
    /\ wpc' = "measured"
    /\ UNCHANGED <<pairVars, phase, caps, renderVars, mermaidVars, scanVars, narrow_cols,
                   medium_cols, wide_cols, narrow_width, medium_width,
                   remaining_width, col_widths>>

\* Lines 467-479.
ClassifyColumns ==
    /\ wpc = "measured"
    /\ narrow_cols' = ColumnsOfClass(max_content_lengths, "narrow")
    /\ medium_cols' = ColumnsOfClass(max_content_lengths, "medium")
    /\ wide_cols' = ColumnsOfClass(max_content_lengths, "wide")
    /\ wpc' = "classified"
    /\ UNCHANGED <<pairVars, phase, caps, renderVars, mermaidVars, scanVars, max_content_lengths,
                   narrow_width, medium_width, remaining_width, col_widths>>

\* Lines 486-490.
FixedBudgets ==
    /\ wpc = "classified"
    /\ narrow_width' = Whole(15)
    /\ medium_width' = Whole(45)
    /\ remaining_width' = RemainingWidth(Len(narrow_cols), Whole(15), Len(medium_cols), Whole(45))
    /\ wpc' = "budgeted"
    /\ UNCHANGED <<pairVars, phase, caps, renderVars, mermaidVars, scanVars, max_content_lengths,
                   narrow_cols, medium_cols, wide_cols, col_widths>>

\* Lines 492-501.
ShrinkBudgets ==
    /\ wpc = "budgeted"
    /\ IF RLess(remaining_width, RMul(available_width, Rat(5, 10)))
       THEN /\ narrow_width' = ShrunkNarrowWidth(Len(narrow_cols), narrow_width, remaining_width)
            /\ medium_width' = ShrunkMediumWidth(Len(medium_cols), medium_width, remaining_width)
            /\ remaining_width' = RemainingWidth(Len(narrow_cols), narrow_width',
                                                 Len(medium_cols), medium_width')
       ELSE UNCHANGED <<narrow_width, medium_width, remaining_width>>
    /\ wpc' = "shrunk"
    /\ UNCHANGED <<pairVars, phase, caps, renderVars, mermaidVars, scanVars, max_content_lengths,
                   narrow_cols, medium_cols, wide_cols, col_widths>>

\* Lines 503-532: the (column, width) pairs in the order they are appended.
DistributeWidths ==
    /\ wpc = "shrunk"
    /\ LET n == Len(narrow_cols)
           m == Len(medium_cols)
           wide_content_lengths == [k \in 1..Len(wide_cols) |-> max_content_lengths[wide_cols[k]]]
           total_wide_weight == SumOf(wide_content_lengths)
           wide == [k \in 1..Len(wide_cols) |->
                        <<wide_cols[k], WideWidth(wide_content_lengths[k], total_wide_weight,
                                                  remaining_width, Len(wide_cols))>>]
       IN  /\ IF wide_cols # <<>>
              THEN UNCHANGED <<narrow_width, medium_width>>
              ELSE IF n > 0 /\ m > 0
              THEN /\ narrow_width' = RDiv(RMul(remaining_width, Rat(3, 10)), Whole(n))
                   /\ medium_width' = RDiv(RMul(remaining_width, Rat(7, 10)), Whole(m))
              ELSE IF n > 0
              THEN /\ narrow_width' = RDiv(remaining_width, Whole(n))
                   /\ medium_width' = medium_width
              ELSE IF m > 0
              THEN /\ medium_width' = RDiv(remaining_width, Whole(m))
                   /\ narrow_width' = narrow_width
              ELSE UNCHANGED <<narrow_width, medium_width>>
           /\ col_widths' = wide \o [k \in 1..n |-> <<narrow_cols[k], narrow_width'>>]
                                 \o [k \in 1..m |-> <<medium_cols[k], medium_width'>>]
    /\ wpc' = "distributed"
    /\ UNCHANGED <<pairVars, phase, caps, renderVars, mermaidVars, scanVars, max_content_lengths,
                   narrow_cols, medium_cols, wide_cols, remaining_width>>

\* Lines 539-543: the widths scaled down when their sum passes the
\* available width.
ScaledWidths(widths) ==
    LET total_width == RSum(widths)
    IN  IF RLess(available_width, total_width)
        THEN [i \in 1..Len(widths) |-> RMul(widths[i], RDiv(available_width, total_width))]
        ELSE widths

\* Lines 534-543: the pairs sorted by column, the widths extracted, and the
\* final safety check.
SortAndScale ==
    /\ wpc = "distributed"
    /\ LET sorted == [i \in 1..Len(col_widths) |->
                         col_widths[CHOOSE k \in 1..Len(col_widths) : col_widths[k][1] = i][2]]
       IN  col_widths' = ScaledWidths(sorted)
    /\ wpc' = "done"
    /\ UNCHANGED <<pairVars, phase, caps, renderVars, mermaidVars, scanVars, max_content_lengths,
                   narrow_cols, medium_cols, wide_cols, narrow_width, medium_width,
                   remaining_width>>

NextWidths ==
    \/ MeasureColumns
    \/ ClassifyColumns
    \/ FixedBudgets
    \/ ShrinkBudgets
    \/ DistributeWidths
    \/ SortAndScale

SpecWidths == Init /\ [][NextWidths]_vars

(***************************************************************************)
(* Two concurrent render requests and their temporary files.  A request    *)
(* of kind "docx" runs the converter block of markdown_to_docx_bytes       *)
(* (lines 1380-1439): slot "out" is tmp_out_path, slot "in" is             *)
(* reference_doc_path.  A request of kind "pdf" runs the local renderer of *)
(* render_mermaid_diagram (lines 745-762 and 811-819): slot "in" is        *)
(* mmd_path, slot "out" is png_path.  The sync endpoints run in worker     *)
(* threads, so the steps of two requests interleave freely.                *)
(***************************************************************************)

\* Mutant: the temporary file has one fixed name.
SharedTemporaryFile(used) == {1}

\* Lines 747, 751, 1293, 1382: tempfile.NamedTemporaryFile(delete=False)
\* creates a file under a name it has not handed out before.
NamedTemporaryFile(used) == Names \ used

\* The temporary-file steps of a render, in the order of the code.
Program(kind) ==
    IF kind = "docx"
    THEN << [op |-> "create", slot |-> "out"],      \* line 1382
            [op |-> "create", slot |-> "in"],       \* lines 1386, 1293-1302
            [op |-> "tool", slot |-> "out"],        \* lines 1392-1406
            [op |-> "read", slot |-> "out"],        \* lines 1409-1418
            [op |-> "remove", slot |-> "out"],      \* lines 1432-1433
            [op |-> "remove", slot |-> "in"] >>     \* lines 1435-1436
    ELSE << [op |-> "create", slot |-> "in"],       \* lines 747-749
            [op |-> "create", slot |-> "out"],      \* lines 751-752
            [op |-> "tool", slot |-> "out"],        \* lines 754-758
            [op |-> "read", slot |-> "out"],        \* lines 760-762
            [op |-> "remove", slot |-> "in"],       \* lines 814-815
            [op |-> "remove", slot |-> "out"] >>    \* lines 816-817

\* The step a request is at.
Step(r) == Program(rkind[r])[rpos[r]]

AtStep(r, op) ==
    /\ rkind[r] # "none"
    /\ rpos[r] \in 1..Len(Program(rkind[r]))
    /\ Step(r).op = op

\* A file: who wrote it, and whose input the bytes were made from.
File(by, from) == [by |-> by, from |-> from]

\* No file under the name, and the bytes of a read that found no file.
Absent == File(0, 0)

\* A render request starts in a serving process.
BeginRender(r) ==
    /\ phase = "serving"
    /\ rkind[r] = "none"
    /\ \E kind \in {"docx", "pdf"} : rkind' = [rkind EXCEPT ![r] = kind]
    /\ rpos' = [rpos EXCEPT ![r] = 1]
    /\ UNCHANGED <<phase, caps, renderVars, mermaidVars, scanVars, widthVars,
                   rpath, rdata, issued, tmpdir>>

\* NamedTemporaryFile, and for the reference document and the diagram
\* source the write that follows.  _create_reference_docx returns "" when
\* it fails (line 1366).
CreateTemp(r) ==
    /\ AtStep(r, "create")
    /\ \/ \E name \in NamedTemporaryFile(issued) :
             /\ issued' = issued \cup {name}
             /\ tmpdir' = [tmpdir EXCEPT ![name] = File(r, r)]
             /\ rpath' = [rpath EXCEPT ![r][Step(r).slot] = name]
       \/ /\ rkind[r] = "docx"
          /\ Step(r).slot = "in"
          /\ UNCHANGED <<issued, tmpdir, rpath>>
    /\ rpos' = [rpos EXCEPT ![r] = @ + 1]
    /\ UNCHANGED <<phase, caps, renderVars, mermaidVars, scanVars, widthVars, rkind, rdata>>

\* pypandoc.convert_text and mmdc: the tool reads the input path, if the
\* request has one, and writes the output path, or fails and writes nothing.
RunTool(r) ==
    /\ AtStep(r, "tool")
    /\ LET in == rpath[r]["in"]
           out == rpath[r]["out"]
           from == IF in # 0 /\ tmpdir[in] # Absent THEN tmpdir[in].by ELSE r
       IN  \/ out # 0 /\ tmpdir' = [tmpdir EXCEPT ![out] = File(r, from)]
           \/ tmpdir' = tmpdir
    /\ rpos' = [rpos EXCEPT ![r] = @ + 1]
    /\ UNCHANGED <<phase, caps, renderVars, mermaidVars, scanVars, widthVars,
                   rkind, rpath, rdata, issued>>

\* Lines 1409-1418 and 760-762: the output file is read back if it exists.
ReadOutput(r) ==
    /\ AtStep(r, "read")
    /\ rdata' = [rdata EXCEPT ![r] = IF rpath[r]["out"] # 0 THEN tmpdir[rpath[r]["out"]] ELSE Absent]
    /\ rpos' = [rpos EXCEPT ![r] = @ + 1]
    /\ UNCHANGED <<phase, caps, renderVars, mermaidVars, scanVars, widthVars,
                   rkind, rpath, issued, tmpdir>>

\* Lines 1432-1436 and 814-817: os.remove of a path that exists, which may
\* fail and leave the file.
RemoveTemp(r) ==
    /\ AtStep(r, "remove")
    /\ LET path == rpath[r][Step(r).slot]
       IN  \/ /\ path # 0
              /\ tmpdir[path] # Absent
              /\ tmpdir' = [tmpdir EXCEPT ![path] = Absent]
           \/ tmpdir' = tmpdir
    /\ rpos' = [rpos EXCEPT ![r] = @ + 1]
    /\ UNCHANGED <<phase, caps, renderVars, mermaidVars, scanVars, widthVars,
                   rkind, rpath, rdata, issued>>

NextPair ==
    \/ LoadModule
    \/ \E r \in Requests : BeginRender(r)
    \/ \E r \in Requests : CreateTemp(r)
    \/ \E r \in Requests : RunTool(r)
    \/ \E r \in Requests : ReadOutput(r)
    \/ \E r \in Requests : RemoveTemp(r)

SpecPair == Init /\ [][NextPair]_vars

(***************************************************************************)
(* Properties of the backend fallback orchestrators (Spec).                *)
(***************************************************************************)

\* The PDF container signature.
PDF_SIG == <<"%", "P", "D", "F">>

\* A byte string a DOCX reader accepts: non-empty, ZIP signature, and a ZIP
\* archive holding [Content_Types].xml and word/document.xml.
DocxWellFormed(a) ==
    /\ Len(a.bytes) > 0
    /\ StartsWith(a.bytes, PK)
    /\ a.zip = "docx"

\* The converter attempt failed in one of the four ways: the call raised,
\* left no output file, left an empty file, or left bytes that are no DOCX.
ConverterAttemptFailed(cl) ==
    /\ cl.name = "pandoc"
    /\ \/ cl.how \in {"raise", "removed"}
       \/ cl.how = "wrote" /\ ~DocxWellFormed(cl.art)

\* The structural backend failed: it raised while building or saving, or
\* what it saved is no DOCX.
StructuralAttemptFailed(cl) ==
    /\ cl.name = "python_docx"
    /\ \/ cl.how \in {"build_raises", "save_raises"}
       \/ cl.how = "saved" /\ ~DocxWellFormed(cl.art)

LastCall == calls[Len(calls)]

\* C1: in PDF mode, when WeasyPrint is available and its rendering call
\* raises while ReportLab is available, markdown_to_pdf_bytes goes on to
\* ReportLab, and the request fails only if ReportLab fails too.
C1_FallbackAfterPrimaryRaises ==
    ( /\ pc = "done"
      /\ endpoint \in PdfEndpoints
      /\ caps["reportlab"]
      /\ Len(calls) >= 1
      /\ calls[1].name = "weasyprint"
      /\ calls[1].how = "raise" )
    => /\ Called(calls, "reportlab")
       /\ response.status # 200 => (LastCall.name = "reportlab" /\ LastCall.how = "raise")

\* C2: in DOCX mode with pandoc available, a converter attempt that raised,
\* left no file, left an empty file or left bytes that are no DOCX is
\* discarded (nothing of it is carried to the return), python-docx is the
\* next call when it is available, and any bytes the function returns are
\* those python-docx produced.
C2_ConverterFailureDiscarded ==
    \A i \in 1..Len(calls) :
        ConverterAttemptFailed(calls[i]) =>
            /\ pending.kind = "none"
            /\ (pc \in {"docx_endpoint", "done"} /\ HTML2DOCX_AVAILABLE(caps))
                  => (Len(calls) = i + 1 /\ calls[i + 1].name = "python_docx")
            /\ fn.kind = "return"
                  => (LastCall.name = "python_docx" /\ fn.art = LastCall.art)

C2_Witness ==
    /\ pc = "done"
    /\ Len(calls) = 2
    /\ calls[1].name = "pandoc"
    /\ calls[1].how = "wrote"
    /\ calls[1].art.zip = "no_parts"
    /\ calls[2].name = "python_docx"
    /\ response.status = 200

\* C3: with the primary flag false and the fallback flag true, the primary
\* backend is never called and none of its temporary files is created, and
\* the request ends with the fallback's artifact or with a failure.
C3_PrimaryNeverAttempted ==
    /\ (endpoint \in PdfEndpoints /\ ~caps["weasyprint"] /\ caps["reportlab"]) =>
          /\ ~Called(calls, "weasyprint")
          /\ (pc = "done" /\ body = "ok") =>
                /\ Len(calls) = 1
                /\ calls[1].name = "reportlab"
                /\ \/ response = Ok(calls[1].art) /\ calls[1].how = "return"
                   \/ response.status \in {500, 503} /\ calls[1].how = "raise"
    /\ (endpoint \in DocxEndpoints /\ ~caps["pandoc"] /\ caps["python_docx"]) =>
          /\ ~Called(calls, "pandoc")
          /\ created = {}
          /\ disk = {}
          /\ tmp_out_path = "unbound"
          /\ reference_doc_path = "unbound"
          /\ (pc = "done" /\ body = "ok") =>
                /\ Len(calls) = 1
                /\ calls[1].name = "python_docx"
                /\ \/ response = Ok(calls[1].art) /\ calls[1].how = "saved"
                   \/ response.status \in {500, 503}

C3_Witness ==
    /\ pc = "done"
    /\ endpoint = "render_docx"
    /\ ~caps["pandoc"]
    /\ caps["python_docx"]
    /\ response.status = 200

\* C4: with neither backend of a format available the request fails with
\* RuntimeError, answered 503 with the message of the missing backend by
\* every render endpoint; no backend is called, no temporary file is created
\* and no artifact is sent.  markdown_to_pdf_bytes is checked as a function
\* over every flag combination, since a process whose reportlab import
\* failed never serves a request.
C4_NoBackendIsServiceUnavailable ==
    /\ \A c \in AllCaps, w \in BackendOutcomes, r \in BackendOutcomes :
          (~c["weasyprint"] /\ ~c["reportlab"]) =>
              LET m == MarkdownToPdfBytes(c, w, r) IN
              /\ m.calls = <<>>
              /\ m.out.kind = "raise"
              /\ m.out.exc.type = "RuntimeError"
              /\ RenderPdfResponse(m.out) = Fail(503, "no_pdf_backend")
              /\ RenderPdfRawResponse(m.out) = Fail(503, "no_pdf_backend")
    /\ ( /\ pc = "done"
         /\ body = "ok"
         /\ endpoint \in PdfEndpoints
         /\ ~caps["weasyprint"]
         /\ ~caps["reportlab"] )
       => (response = Fail(503, "no_pdf_backend") /\ calls = <<>>)
    /\ ( /\ endpoint \in DocxEndpoints
         /\ ~caps["pandoc"]
         /\ ~caps["python_docx"] )
       => /\ calls = <<>>
          /\ created = {}
          /\ fn.kind # "return"
          /\ (pc = "done" /\ body = "ok") => response = Fail(503, "no_docx_backend")

C4_Witness ==
    /\ pc = "done"
    /\ endpoint = "render_docx_raw"
    /\ body = "ok"
    /\ ~caps["pandoc"]
    /\ ~caps["python_docx"]
    /\ response.status = 503

\* C5: every PDF sent to the caller is non-empty and begins with the PDF
\* signature: bytes failing that are never returned.
C5_PdfArtifactValidated ==
    (endpoint \in PdfEndpoints /\ response.status = 200)
    => /\ Len(response.art.bytes) > 0
       /\ StartsWith(response.art.bytes, PDF_SIG)

\* C6: every byte string markdown_to_docx_bytes returns (from the converter
\* through the finally block, or from python-docx) is non-empty and begins
\* with the ZIP signature PK.
C6_DocxBytesSigned ==
    \A o \in {pending, fn} :
        (endpoint \in DocxEndpoints /\ o.kind = "return")
        => /\ Len(o.art.bytes) > 0
           /\ StartsWith(o.art.bytes, PK)

C6_Witness ==
    /\ endpoint \in DocxEndpoints
    /\ fn.kind = "return"
    /\ LastCall.name = "python_docx"
    /\ fn.art.zip = "no_parts"

\* C7 as stated: when the converter attempt fails and the structural backend
\* fails too, the response is 503 and nothing else.
C7_BothFailIs503 ==
    ( /\ pc = "done"
      /\ Len(calls) = 2
      /\ ConverterAttemptFailed(calls[1])
      /\ StructuralAttemptFailed(calls[2]) )
    => response.status = 503

\* C7 amended: when the converter attempt fails and the structural backend
\* fails too, no artifact is sent and the response is 503 exactly when the
\* failure reaches the endpoint as RuntimeError (the save raised, the saved
\* bytes were empty or lacked the PK signature, or building raised a
\* RuntimeError); it is 500 when building raised another exception or when
\* the endpoint's validate_docx_file rejected the bytes returned.
C7_BothFailIs503Or500 ==
    ( /\ pc = "done"
      /\ Len(calls) = 2
      /\ ConverterAttemptFailed(calls[1])
      /\ StructuralAttemptFailed(calls[2]) )
    => LET s == calls[2]
           asRuntimeError ==
               \/ s.how = "save_raises"
               \/ s.how = "build_raises" /\ s.type = "RuntimeError"
               \/ s.how = "saved" /\ Len(s.art.bytes) = 0
               \/ s.how = "saved" /\ ~StartsWith(s.art.bytes, PK)
       IN  /\ response.art = NoArtifact
           /\ asRuntimeError => response.status = 503
           /\ ~asRuntimeError => response.status = 500

C7_Witness ==
    /\ pc = "done"
    /\ Len(calls) = 2
    /\ ConverterAttemptFailed(calls[1])
    /\ calls[2].name = "python_docx"
    /\ calls[2].how = "saved"
    /\ calls[2].art.zip = "no_parts"
    /\ response = Fail(500, "generated_docx_file_is_corrupted")

\* C8: with pandoc available, once markdown_to_docx_bytes has returned or
\* raised, no temporary file the request created (output file, reference
\* template) is left on disk.
C8_NoConverterTempFileRemains ==
    ( /\ endpoint \in DocxEndpoints
      /\ caps["pandoc"]
      /\ fn.kind # "none" )
    => disk \cap created = {}

(***************************************************************************)
(* Properties of the diagram render chain (SpecMermaid).                   *)
(***************************************************************************)

\* C9: once render_mermaid_diagram has returned, neither the source file
\* nor the output image it created for the local renderer is left on disk,
\* whichever way the function ended.
C9_NoMermaidTempFileRemains ==
    mresult.kind # "none" => disk \cap created = {}

\* C10: render_mermaid_diagram never raises: it ends by returning image
\* bytes or None whatever the local renderer, the two network services and
\* the clean-up do, and every step before that can be taken; the assembler
\* never raises at the diagram, appends the placeholder when the result is
\* None or the image cannot be embedded, and goes on with the next line.
C10_DiagramChainNeverRaises ==
    /\ mresult.kind \in {"none", "return"}
    /\ mresult.kind = "return" => mresult.value \in ImageBytes \cup {"None"}
    /\ mpc # "assembler_raised"
    /\ mpc \notin {"idle", "next_line"} => ENABLED NextMermaid
    /\ mpc = "next_line" =>
          IF mresult.value = "None"
          THEN elements = <<"placeholder">>
          ELSE elements \in {<<"image", "spacer">>, <<"placeholder">>}
    /\ \A v \in ImageBytes \cup {"None"} :
          DiagramElements(ReturnValue(v), FALSE) = <<"placeholder">>

\* All three methods failed and the clean-up raised on the source file; the
\* assembler has appended the placeholder and gone on.
C10_Witness ==
    /\ mpc = "next_line"
    /\ attempted = <<"mmdc", "mermaid_ink", "kroki">>
    /\ mresult = ReturnValue("None")
    /\ mmd_path = "mmd"
    /\ png_path = "png"
    /\ disk = {"mmd", "png"}
    /\ elements = <<"placeholder">>

\* The three render methods in the order of lines 745, 771 and 788.
MethodOrder == <<"mmdc", "mermaid_ink", "kroki">>

\* C11: whenever a method of the chain fails in any way (non-zero exit,
\* empty output, timeout, missing executable, any other exception, non-200
\* status, empty body) the next method is attempted, so that with the
\* dependencies present render_mermaid_diagram returns None, and the
\* placeholder is produced for it, only after all three methods have been
\* attempted and have failed.
C11_EveryFailureTriesNextMethod ==
    (caps["mermaid"] /\ mresult = ReturnValue("None")) => attempted = MethodOrder

\* C12: the methods are attempted strictly in the order mmdc, mermaid.ink,
\* kroki, each at most once: the methods attempted are always a prefix of
\* that order; a method is entered only while no earlier method has
\* succeeded; and when method k succeeds no later method is attempted and the
\* result is the bytes of method k.
C12_StrictOrderFirstSuccessWins ==
    /\ Len(attempted) <= Len(MethodOrder)
    /\ attempted = SubSeq(MethodOrder, 1, Len(attempted))
    /\ \A o \in {mpending, mresult} :
          /\ o = ReturnValue("png_mmdc") => attempted = SubSeq(MethodOrder, 1, 1)
          /\ o = ReturnValue("png_mermaid_ink") => attempted = SubSeq(MethodOrder, 1, 2)
          /\ o = ReturnValue("png_kroki") => attempted = MethodOrder
    /\ (mpc \in {"m2", "m3"}) => mpending = NoValue

\* mmdc exited non-zero, mermaid.ink answered with an image: kroki was not
\* attempted and the image of mermaid.ink is the result.
C12_Witness ==
    /\ mpc = "next_line"
    /\ attempted = <<"mmdc", "mermaid_ink">>
    /\ mresult = ReturnValue("png_mermaid_ink")
    /\ elements = <<"image", "spacer">>

(***************************************************************************)
(* Properties of the line scanners (SpecBlocks, SpecLines).                *)
(***************************************************************************)
PdfScanner == "markdown_to_pdf_bytes_reportlab"
DocxScanner == "markdown_to_docx_bytes"
HtmlScanner == "process_mermaid_diagrams_in_markdown"

\* Line l is a fence line.
IsFence(l) == StartsWith(Strip(l), Fence)

\* Line i of ls is a fence line that opens a code block.
OpensFence(ls, i) ==
    /\ IsFence(ls[i])
    /\ Cardinality({j \in 1..(i - 1) : IsFence(ls[j])}) % 2 = 0

\* The fence line l is tagged mermaid or mmd.
TaggedMermaid(l) == Lower(Strip(Drop(Strip(l), 3))) \in {Mermaid, <<"m", "m", "d">>}

\* Line i of ls lies between an opening fence and its closing fence or the
\* end of the input.
InsideFence(ls, i) ==
    /\ ~IsFence(ls[i])
    /\ Cardinality({j \in 1..(i - 1) : IsFence(ls[j])}) % 2 = 1

LastLine == lines[Len(lines)]

LastBlock == blocks[Len(blocks)]

\* Sources for the placeholder: a first line starting with each keyword of
\* the chain or with none, alone or indented after a blank line, with an
\* argument, and followed by a second line that starts with another keyword.
PlaceholderFirstWords ==
    {DiagramKeywords[i].kw : i \in 1..Len(DiagramKeywords)}
    \cup {<<"f", "l", "o", "w", "c", "h", "a", "r", "t">>, <<"x">>, <<"p", "i">>}

PlaceholderSources ==
    {pre \o w \o post :
        pre \in {<<>>, <<"\n", " ">>},
        w \in PlaceholderFirstWords,
        post \in {<<>>, <<" ", "T", "D">>, <<"\n", "p", "i", "e">>}}

\* The type each keyword of the chain stands for.
ExpectedType(first_line) ==
    LET starts(w) == StartsWith(first_line, w) IN
    IF starts(<<"g", "r", "a", "p", "h">>) THEN "Flowchart"
    ELSE IF starts(<<"s", "e", "q", "u", "e", "n", "c", "e">>) THEN "Sequence Diagram"
    ELSE IF starts(<<"c", "l", "a", "s", "s">>) THEN "Class Diagram"
    ELSE IF starts(<<"s", "t", "a", "t", "e">>) THEN "State Diagram"
    ELSE IF starts(<<"e", "r">>) THEN "Entity Relationship Diagram"
    ELSE IF starts(<<"j", "o", "u", "r", "n", "e", "y">>) THEN "User Journey"
    ELSE IF starts(<<"g", "a", "n", "t", "t">>) THEN "Gantt Chart"
    ELSE IF starts(<<"p", "i", "e">>) THEN "Pie Chart"
    ELSE "Diagram"

\* p is a bracketed string that names type and contains the message.
IsPlaceholderNaming(p, type) ==
    /\ p[1] = "["
    /\ p[Len(p)] = "]"
    /\ p[2] = type
    /\ \E i \in 1..Len(p) : p[i] = "Mermaid diagram rendering not available"

\* C13: the placeholder names the diagram type read from the leading keyword
\* of the first line of the source (flowchart, sequence, class, state,
\* entity-relationship, journey, gantt, pie, otherwise generic); a source
\* whose first line is sequenceDiagram yields "Sequence Diagram"; and every
\* placeholder, those the PDF assembler appends included, is a bracketed
\* string containing "Mermaid diagram rendering not available".  The function
\* is applied to the sample sources before the first line is read.
C13_PlaceholderNamesDiagramType ==
    /\ lines = <<>> =>
          /\ \A src \in PlaceholderSources :
                IsPlaceholderNaming(create_mermaid_placeholder(src),
                                    ExpectedType(Split(Strip(src), "\n")[1]))
          /\ \A post \in {<<>>, <<"\n", "p", "i", "e">>} :
                create_mermaid_placeholder(DiagramKeywords[2].kw \o post)[2]
                    = "Sequence Diagram"
    /\ \A k \in 1..Len(blocks) :
          blocks[k].kind = "placeholder" =>
              /\ IsPlaceholderNaming(blocks[k].text, ExpectedType(LStrip(blocks[k].src[1])))
              /\ blocks[k].src[1] = DiagramKeywords[2].kw
                    => blocks[k].text[2] = "Sequence Diagram"

\* The PDF assembler closed a mermaid block whose first line is
\* sequenceDiagram, nothing rendered it, and the placeholder appended names
\* "Sequence Diagram".
C13_Witness ==
    /\ scanner = PdfScanner
    /\ lines = <<Fence \o Mermaid, DiagramKeywords[2].kw, Fence>>
    /\ blocks # <<>>
    /\ LastBlock.kind = "placeholder"
    /\ LastBlock.text[2] = "Sequence Diagram"

\* Lines i..i+2 of ls are a closed one-line code block tagged mermaid.
ClosedMermaidBlockAt(ls, i) ==
    /\ i + 2 <= Len(ls)
    /\ OpensFence(ls, i)
    /\ TaggedMermaid(ls[i])
    /\ ~IsFence(ls[i + 1])
    /\ IsFence(ls[i + 2])

\* C14: whichever backend scans the document, once it has scanned it and no
\* diagram was rendered to an image, every closed code block tagged mermaid
\* has been replaced by the placeholder text holding "Mermaid diagram
\* rendering not available".
C14_MermaidBlockBecomesPlaceholder ==
    ( /\ spc = "done"
      /\ \A k \in 1..Len(blocks) : blocks[k].kind # "image" )
    => \A i \in 1..Len(lines) :
          ClosedMermaidBlockAt(lines, i) =>
              \E k \in 1..Len(blocks) :
                  /\ blocks[k].kind = "placeholder"
                  /\ blocks[k].src = <<lines[i + 1]>>
                  /\ \E j \in 1..Len(blocks[k].text) :
                        blocks[k].text[j] = "Mermaid diagram rendering not available"

\* C15: in the PDF assembler table mode closes at the first line that is no
\* table line, a fence line included, so no table is being buffered while a
\* code block is open, and every Table is built from table lines that follow
\* one another in the source.
C15_FenceClosesTableMode ==
    scanner = PdfScanner =>
        /\ in_code_block => (~in_table /\ table_lines = <<>>)
        /\ \A k \in 1..Len(blocks) :
              blocks[k].kind = "table" =>
                  \E i \in 1..Len(lines) :
                      /\ i + Len(blocks[k].src) - 1 <= Len(lines)
                      /\ SubSeq(lines, i, i + Len(blocks[k].src) - 1) = blocks[k].src

\* C16: in the PDF assembler and the python-docx loop, a line read between
\* an opening fence and its closing fence is buffered as code content: the
\* loop is in code mode and the line is the last of code_lines.
C16_FencedLineIsBufferedAsCode ==
    ( /\ scanner \in {PdfScanner, DocxScanner}
      /\ spc = "loop"
      /\ lines # <<>>
      /\ InsideFence(lines, Len(lines)) )
    => /\ in_code_block
       /\ code_lines # <<>>
       /\ code_lines[Len(code_lines)] = LastLine

\* The number of '#' characters s starts with.
HashRun(s) ==
    CHOOSE n \in 0..Len(s) :
        /\ \A i \in 1..n : s[i] = "#"
        /\ n < Len(s) => s[n + 1] # "#"

\* s starts with a run of 1 to maxLevel '#' characters followed by a space.
MarkedHeading(s, maxLevel) ==
    /\ HashRun(s) \in 1..maxLevel
    /\ Len(s) > HashRun(s)
    /\ s[HashRun(s) + 1] = " "

\* The loop has just read a line outside code and table mode.
LineReadOutsideModes ==
    /\ spc = "loop"
    /\ lines # <<>>
    /\ ~in_code_block
    /\ ~in_table
    /\ ~(scanner = PdfScanner /\ IsFence(LastLine))

\* The line just read was emitted as a block of this kind.
LastLineEmittedAs(kind) ==
    /\ blocks # <<>>
    /\ LastBlock.kind = kind
    /\ LastBlock.src = <<LastLine>>

\* The line just read is a heading exactly when it is marked as one of
\* level 1 to maxLevel, and then the level is the length of the run.
HeadingExactlyUpTo(maxLevel) ==
    IF MarkedHeading(Strip(LastLine), maxLevel)
    THEN LastLineEmittedAs("heading") /\ LastBlock.level = HashRun(Strip(LastLine))
    ELSE ~LastLineEmittedAs("heading")

\* C17 as stated: in both direct backends a line outside code and table
\* mode is a heading exactly when its trimmed form starts with 1 to 4 '#'
\* and a space; 5 or more '#' never make a heading.
C17_HeadingLevelsOneToFour ==
    (scanner \in {PdfScanner, DocxScanner} /\ LineReadOutsideModes)
    => HeadingExactlyUpTo(4)

\* C17 amended: a line outside code and table mode is a heading, of level
\* equal to the length of the run, exactly when its trimmed form starts with
\* a run of '#' followed by a space, the run being of 1 to 4 in the PDF
\* assembler and of 1 to 6 in the python-docx loop; a longer run never makes
\* a heading.
C17_HeadingLevelsPerBackend ==
    /\ (scanner = PdfScanner /\ LineReadOutsideModes) => HeadingExactlyUpTo(4)
    /\ (scanner = DocxScanner /\ LineReadOutsideModes) => HeadingExactlyUpTo(6)

\* The python-docx loop made "##### h" a heading of level 5.
C17_Witness ==
    /\ scanner = DocxScanner
    /\ lines = <<Hashes(5) \o <<" ", "h">>>>
    /\ LastLineEmittedAs("heading")
    /\ LastBlock.level = 5

\* s begins with one digit immediately followed by ". " or ") ".
NumberedPrefix(s) ==
    /\ Len(s) >= 3
    /\ s[1] \in {"0", "1", "2", "3", "4", "5", "6", "7", "8", "9"}
    /\ s[2] \in {".", ")"}
    /\ s[3] = " "

\* C18: in both direct backends a line outside code and table mode is
\* classified as a numbered list item exactly when its trimmed form begins
\* with a digit immediately followed by ". " or ") ".
C18_NumberedItemByDigitPrefix ==
    (scanner \in {PdfScanner, DocxScanner} /\ LineReadOutsideModes)
    => (LastLineEmittedAs("numbered") <=> NumberedPrefix(Strip(LastLine)))

\* C19: when the PDF assembler or the markdown pre-processing reaches the
\* end of the input inside an unterminated fence, the lines buffered since
\* the opening fence are in the output as a block of the same kind: a
\* diagram when the fence is tagged mermaid, otherwise code (for the
\* pre-processing, the lines of the code block).
C19_UnterminatedFenceIsFlushed ==
    (scanner \in {PdfScanner, HtmlScanner} /\ spc = "done")
    => \A i \in 1..Len(lines) :
          ( /\ OpensFence(lines, i)
            /\ i < Len(lines)
            /\ \A j \in (i + 1)..Len(lines) : ~IsFence(lines[j]) )
          => LET buffered == SubSeq(lines, i + 1, Len(lines)) IN
             IF TaggedMermaid(lines[i])
             THEN \E k \in 1..Len(blocks) :
                     /\ blocks[k].kind \in {"image", "placeholder", "mermaid_div"}
                     /\ blocks[k].src = buffered
             ELSE IF scanner = PdfScanner
             THEN \E k \in 1..Len(blocks) :
                     /\ blocks[k].kind = "code"
                     /\ blocks[k].src = buffered
             ELSE \A j \in 1..Len(buffered) :
                     \E k \in 1..Len(blocks) :
                         /\ blocks[k].kind = "line"
                         /\ blocks[k].src = <<buffered[j]>>

\* Every character of the cell is a dash, a colon or whitespace.
OnlyDashesAndColons(cell) ==
    \A i \in 1..Len(cell) : cell[i] \in {"-", ":", " ", "\t"}

\* Every cell of the row line l is of dashes, colons and whitespace.
SeparatorLine(l) ==
    /\ \A i \in 1..Len(l) : l[i] \in {"-", ":", "|", " ", "\t"}
    /\ \E i \in 1..Len(l) : l[i] \in {"-", ":"}

\* Separator rows and rows that are none.
SeparatorSamples ==
    { <<"-", "-", "-">>, <<":", "-", "-", "-", ":">>, <<"-", "-", "-", ":">>,
      <<"|", " ", "-", "-", "-", " ", "|", " ", ":", "-", ":", " ", "|">>,
      <<"-", "|", ":", "-">> }

RowSamples ==
    { <<"a", "|", "b">>, <<"|", " ", "a", " ", "|", " ", "-", " ", "|">>,
      <<"-", "-", "|", "x">> }

\* C20: parse_markdown_table and _add_table_to_doc drop every row whose
\* cells are all of dashes, colons and whitespace before they check that 2
\* rows remain: a header with separator rows alone gives no table, a header,
\* a separator and a data row give a table of the header and the data row,
\* and no table emitted by either loop holds a separator row or fewer than
\* 2 rows.  The two functions are applied to the sample rows before the
\* first line is read.
C20_SeparatorRowsDroppedFirst ==
    /\ lines = <<>> =>
          /\ \A h \in RowSamples, s1 \in SeparatorSamples, s2 \in SeparatorSamples :
                /\ parse_markdown_table(<<h, s1>>).none
                /\ parse_markdown_table(<<h, s1, s2>>).none
                /\ add_table_to_doc(<<>>, <<h, s1>>) = <<>>
                /\ add_table_to_doc(<<>>, <<h, s1, s2>>) = <<>>
          /\ \A h \in RowSamples, s1 \in SeparatorSamples, d \in RowSamples :
                /\ parse_markdown_table(<<h, s1, d>>).rows = <<Cells(h), Cells(d)>>
                /\ add_table_to_doc(<<>>, <<h, s1, d>>)[1].text = <<Cells(h), Cells(d)>>
    /\ \A k \in 1..Len(blocks) :
          blocks[k].kind = "table" =>
              LET rows == blocks[k].text
                  src == blocks[k].src
              IN  /\ Len(rows) >= 2
                  /\ \A r \in 1..Len(rows) :
                        \E c \in 1..Len(rows[r]) : ~OnlyDashesAndColons(rows[r][c])
                  /\ Len(rows) = Cardinality({j \in 1..Len(src) : ~SeparatorLine(src[j])})

\* The PDF assembler emitted a table of two rows from a header, a separator
\* row and a data row.
C20_Witness ==
    /\ scanner = PdfScanner
    /\ spc = "done"
    /\ lines = <<<<"a", "|", "b">>, <<"-", "|", ":", "-">>, <<"a", "|", "b">>>>
    /\ Len(blocks) = 2
    /\ blocks[1].kind = "table"
    /\ Len(blocks[1].text) = 2

(***************************************************************************)
(* Properties of the width plan of PDF tables (SpecWidths).                *)
(***************************************************************************)

\* The A4 width less 40 points, in points: 595.2755... - 40 = 70520 / 127.
PageBudget == [num |-> 70520, den |-> 127]

\* 80% and 50% of it.
WideCap == [num |-> 56416, den |-> 127]

HalfPageBudget == [num |-> 35260, den |-> 127]

\* a <= b for two fractions.
AtMost(a, b) == ~RLess(b, a)

\* The columns whose longest cell has from lo to hi characters.
ColumnsWithin(lo, hi) ==
    { i \in 1..Len(max_content_lengths) :
         max_content_lengths[i] >= lo /\ max_content_lengths[i] <= hi }

NarrowCount == Cardinality(ColumnsWithin(0, 3))

MediumCount == Cardinality(ColumnsWithin(4, 15))

WideColumns == { i \in 1..Len(max_content_lengths) : max_content_lengths[i] > 15 }

C22_EveryWidthPositive ==
    wpc = "done" => \A i \in 1..Len(col_widths) : col_widths[i].num > 0

\* The fixed budgets of 15 points for a narrow and 45 points for a medium
\* column take more than half the available width.
FixedBudgetsExceedHalf ==
    RLess(HalfPageBudget, [num |-> 15 * NarrowCount + 45 * MediumCount, den |-> 1])

\* C23: whenever the fixed narrow and medium budgets exceed half the
\* available width, the width that remains for the wide columns after the
\* shrink step is at least half the available width.
C23_ShrinkLeavesHalfForWide ==
    (wpc = "shrunk" /\ FixedBudgetsExceedHalf) =>
        AtMost(HalfPageBudget, remaining_width)

\* C28: the shrink step never raises a budget: after it a narrow column has
\* at most 15 points and a medium column at most 45 points.
C28_ShrinkNeverRaisesBudget ==
    wpc = "shrunk" =>
        /\ AtMost(narrow_width, [num |-> 15, den |-> 1])
        /\ AtMost(medium_width, [num |-> 45, den |-> 1])

(***************************************************************************)
(* Properties of table rows and cells (SpecTables).                        *)
(***************************************************************************)

\* The cells of a row line when only the empty piece before a leading pipe
\* and the empty piece after a trailing pipe are discarded.
ExpectedCells(line) ==
    LET pieces == Split(line, "|")
        trimmed == [i \in 1..Len(pieces) |-> Strip(pieces[i])]
        first == IF trimmed[1] = <<>> THEN 2 ELSE 1
        last == IF trimmed[Len(trimmed)] = <<>> THEN Len(trimmed) - 1 ELSE Len(trimmed)
    IN  SubSeq(trimmed, first, last)

TableBlocks == { k \in 1..Len(blocks) : blocks[k].kind = "table" }

\* C24: row parsing discards only the empty pieces that come from a leading
\* or trailing pipe of the line; an empty cell between two pipes inside the
\* row is kept, so every non-empty cell keeps its column index.
C24_InteriorEmptyCellsKept ==
    \A k \in TableBlocks :
        \A j \in 1..Len(blocks[k].src) :
            Cells(blocks[k].src[j]) = ExpectedCells(blocks[k].src[j])

\* The first row of a table that is no separator row, as the parser cut it.
FirstSurvivingRow(src) == ParsedRows(src)[1]

\* C25: the column count of a table is the cell count of its first surviving
\* row, and every row handed to the rendering backend has exactly that many
\* cells: a shorter row is filled with missing trailing cells and no row
\* carries more cells than there are column widths.
C25_RowsMatchColumnCount ==
    \A k \in TableBlocks :
        LET count == Len(FirstSurvivingRow(blocks[k].src))
        IN  /\ scanner = PdfScanner => parse_markdown_table(blocks[k].src).num_cols = count
            /\ \A r \in 1..Len(blocks[k].text) : Len(blocks[k].text[r]) = count

\* How often sub occurs in s.
Occurrences(s, sub) ==
    Cardinality({ i \in 1..(Len(s) + 1 - Len(sub)) : SubSeq(s, i, i + Len(sub) - 1) = sub })

\* The line-break markup in a cell: <br>, <br/> and <br />.
BreakMarkup(cell) ==
    Occurrences(cell, <<"<", "b", "r", ">">>) + Occurrences(cell, <<"<", "b", "r", "/", ">">>)
        + Occurrences(cell, <<"<", "b", "r", " ", "/", ">">>)

\* C29: in a PDF table cell every literal <br>, <br/> and <br /> reaches the
\* backend as <br/> and never as escaped text, and a cell that holds such
\* markup gets no further line breaks from the long-cell step.
C29_BreakMarkupReachesBackend ==
    scanner = PdfScanner =>
        \A k \in TableBlocks :
            LET rows == ParsedRows(blocks[k].src)
            IN  \A r \in 1..Len(rows) : \A c \in 1..Len(rows[r]) :
                    BreakMarkup(rows[r][c]) > 0 =>
                        /\ Occurrences(blocks[k].text[r][c], <<"<", "b", "r", "/", ">">>)
                               = BreakMarkup(rows[r][c])
                        /\ Occurrences(blocks[k].text[r][c], <<"&", "l", "t", ";", "b", "r">>) = 0

(***************************************************************************)
(* Properties of the raw endpoints and of temporary files (Spec).          *)
(***************************************************************************)

\* C30: on both raw endpoints a well-formed JSON body whose markdown field
\* is missing or empty is answered with HTTP 400, "markdown field is
\* required", and no backend is invoked.
C30_MissingMarkdownIsBadRequest ==
    (pc = "done" /\ endpoint \in {"render_pdf_raw", "render_docx_raw"} /\ body = "no_markdown") =>
        /\ response.status = 400
        /\ response.detail = "markdown_field_is_required"
        /\ calls = <<>>

\* C27: a failure to delete a temporary file, in the clean-up of the diagram
\* render chain or in the clean-up after the converter, never propagates and
\* never changes the outcome: the step that runs the clean-up ends the
\* function the way its try block ended, whether or not a removal failed.
C27_CleanupFailureNeverPropagates ==
    [][ /\ (pc = "docx_cleanup" /\ pc' # pc) =>
              /\ pending' = pending
              /\ pending.kind = "return" => (fn' = pending /\ pc' = "docx_endpoint")
              /\ pending.kind # "return" => (fn' = fn /\ pc' = "docx_structural")
        /\ (mpc = "finally" /\ mpc' # mpc) => mresult' = mpending ]_vars

\* Both clean-ups failed to remove a file, which is still on disk, and the
\* DOCX request was answered with the converter's bytes and the diagram
\* render returned its image.
C27_Witness ==
    /\ pc = "done"
    /\ endpoint \in DocxEndpoints
    /\ response.status = 200
    /\ Len(calls) = 1
    /\ tmp_out_path \in disk
    /\ mpc = "next_line"
    /\ mresult.kind = "return"
    /\ mresult.value \in ImageBytes
    /\ mmd_path \in disk

(***************************************************************************)
(* Properties of two concurrent requests (SpecPair).                       *)
(***************************************************************************)

Slots == {"in", "out"}

\* The position at which a request of the given kind removes the file of a
\* slot.
RemovalAt(kind, slot) ==
    CHOOSE i \in 1..Len(Program(kind)) :
        Program(kind)[i].op = "remove" /\ Program(kind)[i].slot = slot

\* What a request running alone reads back: nothing, or the bytes its own
\* tool made from its own input.
OutcomeAlone(r) == { [by |-> 0, from |-> 0], [by |-> r, from |-> r] }

\* C26: in every interleaving of two concurrent render requests each
\* request's outcome is the one it would have produced alone: the two
\* requests hold different temporary files, the file under a path a request
\* holds is the one that request wrote and is there until that request
\* removes it, so no request reads, overwrites or deletes a file of the
\* other; and no step of a render writes a capability flag after startup.
C26_ConcurrentRequestsDoNotInterfere ==
    /\ [] /\ \A r \in Requests : rdata[r] \in OutcomeAlone(r)
          /\ \A r \in Requests, q \in Requests, s \in Slots, t \in Slots :
                (r # q /\ rpath[r][s] # 0) => rpath[r][s] # rpath[q][t]
          /\ \A r \in Requests, s \in Slots :
                rpath[r][s] # 0 =>
                    /\ tmpdir[rpath[r][s]].by \in {0, r}
                    /\ tmpdir[rpath[r][s]].from \in {0, r}
                    /\ rpos[r] <= RemovalAt(rkind[r], s) => tmpdir[rpath[r][s]].by = r
    /\ [][phase = "serving" => caps' = caps]_vars

\* A DOCX request and a PDF request created their files in turn, each read
\* back the bytes of its own tool, and both have finished.
C26_Witness ==
    /\ rkind = [r \in Requests |-> IF r = 1 THEN "docx" ELSE "pdf"]
    /\ rpath[1] = [slot \in Slots |-> IF slot = "out" THEN 1 ELSE 3]
    /\ rpath[2] = [slot \in Slots |-> IF slot = "in" THEN 2 ELSE 4]
    /\ \A r \in Requests : rdata[r] = [by |-> r, from |-> r]
    /\ \A r \in Requests : rpos[r] = Len(Program(rkind[r])) + 1

====
